---- MODULE Spec2Model ----
(***************************************************************************)
(* A model of the BLE worker of meshcore-gui (meshcore_gui/ble_worker.py): *)
(* the two notification callbacks that reconcile RX_LOG_DATA and           *)
(* CHANNEL_MSG_RECV events into published messages, the two bounded dedup  *)
(* caches, the keyword bot with its cooldown, and the worker's connect     *)
(* phase and command-draining loop.                                        *)
(*                                                                         *)
(* Python strings are modelled as sequences of one-character strings, so   *)
(* that splitting, stripping, prefix/suffix/substring tests and the        *)
(* f-string content key are computed as the code computes them.  An        *)
(* optional value (None or v) is the sequence <<>> or <<v>>.               *)
(***************************************************************************)
EXTENDS Integers, Sequences, FiniteSets, TLC

VARIABLES
    pc,                 \* position of the worker coroutine (_async_main)
    conn_pc,            \* position inside _connect while pc = "connect"
    mc,                 \* self.mc is set (the transport session exists)
    subscribed,         \* the three callbacks are subscribed on the session
    connected,          \* shared.set_connected(True) was called
    status,             \* last status string published (its kind)
    running,            \* self.running
    queue,              \* the SharedData command queue
    cur,                \* the command whose handler is suspended in an await
    sent,               \* transport log: the commands issued to the device
    messages,           \* shared.add_message records, in publication order
    seen_hashes,        \* self._seen_hashes
    seen_hashes_order,  \* self._seen_hashes_order
    seen_content,       \* self._seen_content
    seen_content_order, \* self._seen_content_order
    bot_last_reply,     \* self._bot_last_reply
    now,                \* the clock read by time.time()
    bot_enabled,        \* the GUI's bot checkbox (shared.is_bot_enabled())
    next_id,            \* number of commands enqueued so far (tags commands)
    rx_log,             \* number of shared.add_rx_log records
    ld_pc,              \* position inside _load_data
    attempt,            \* loop counter of the retry loop being executed
    ch_i,               \* index of the channel _load_channel_keys is at
    chan_keys,          \* decoder keys installed: channel idx -> origin
    loaded,             \* payloads published by _load_data (counts)
    pending,            \* notifications the transport has yet to deliver
    route_msg,          \* the message handed to RouteBuilder.build (<<>>: none)
    route_data,         \* the snapshot handed to RouteBuilder.build
    route_result,       \* what RouteBuilder.build returned (<<>>: not called)
    path_str            \* what _format_path returned (<<>>: not called)

vars == <<pc, conn_pc, mc, subscribed, connected, status, running, queue, cur,
          sent, messages, seen_hashes, seen_hashes_order, seen_content,
          seen_content_order, bot_last_reply, now, bot_enabled, next_id,
          rx_log, ld_pc, attempt, ch_i, chan_keys, loaded, pending,
          route_msg, route_data, route_result, path_str>>

connVars == <<conn_pc, mc, subscribed, connected, ch_i, chan_keys>>
loadVars == <<ld_pc, attempt, loaded>>
cacheVars == <<seen_hashes, seen_hashes_order, seen_content, seen_content_order>>
routeVars == <<route_msg, route_data, route_result, path_str>>

(***************************************************************************)
(* Bounds of the model.                                                    *)
(***************************************************************************)
\* Capacity of each dedup cache.  The program sets _SEEN_HASHES_MAX = 200
\* (ble_worker.py line 52); the model runs the same code with a small
\* capacity so that eviction happens within the explored runs.
SEEN_HASHES_MAX == 2
\* At most this many records are published before notifications stop: one
\* more than fills a cache and evicts its oldest key, so that a message can
\* be published after an eviction.
MaxMessages == 4
\* At most this many records are published in the runs that go through
\* every kind of event, or through time.
MaxEventMessages == 3
\* The clock advances at most this many seconds.
MaxTicks == 5
\* At most this many commands are enqueued in a run.
MaxCommands == 3
\* At most this many commands are enqueued in a run that starts at
\* construction.
MaxLifeCommands == 2

(***************************************************************************)
(* Program constants (meshcore_gui/config.py).                             *)
(***************************************************************************)
BOT_CHANNEL == 1
BOT_COOLDOWN_SECONDS == 5
BOT_NAME == <<"Z","w","o","l","l","e"," ","B","o","t">>

(***************************************************************************)
(* Python string operations on character sequences.                        *)
(***************************************************************************)
UpperChars == <<"A","B","C","D","E","F","G","H","I","J","K","L","M",
                "N","O","P","Q","R","S","T","U","V","W","X","Y","Z">>
LowerChars == <<"a","b","c","d","e","f","g","h","i","j","k","l","m",
                "n","o","p","q","r","s","t","u","v","w","x","y","z">>

\* str.lower() on one character
LowerChar(c) ==
    IF \E i \in 1..Len(UpperChars) : UpperChars[i] = c
    THEN LowerChars[CHOOSE i \in 1..Len(UpperChars) : UpperChars[i] = c]
    ELSE c

\* str.upper() on one character
UpperChar(c) ==
    IF \E i \in 1..Len(LowerChars) : LowerChars[i] = c
    THEN UpperChars[CHOOSE i \in 1..Len(LowerChars) : LowerChars[i] = c]
    ELSE c

\* s.lower()
Lower(s) == [i \in 1..Len(s) |-> LowerChar(s[i])]

\* s.upper()
Upper(s) == [i \in 1..Len(s) |-> UpperChar(s[i])]

\* whitespace as str.strip() sees it
IsSpace(c) == c \in {" "}

\* s.startswith(p)
StartsWith(s, p) == Len(p) <= Len(s) /\ SubSeq(s, 1, Len(p)) = p

\* s.endswith(p)
EndsWith(s, p) == Len(p) <= Len(s) /\ SubSeq(s, Len(s) - Len(p) + 1, Len(s)) = p

\* the positions at which p occurs in s
Occurrences(s, p) ==
    {i \in 1..(Len(s) - Len(p) + 1) : SubSeq(s, i, i + Len(p) - 1) = p}

\* p in s
Contains(s, p) == Len(p) = 0 \/ Occurrences(s, p) # {}

\* s.rstrip()
RStrip(s) ==
    LET keep == {i \in 1..Len(s) : ~IsSpace(s[i])}
    IN  IF keep = {} THEN <<>>
        ELSE SubSeq(s, 1, CHOOSE i \in keep : \A j \in keep : j <= i)

\* s.lstrip()
LStrip(s) ==
    LET keep == {i \in 1..Len(s) : ~IsSpace(s[i])}
    IN  IF keep = {} THEN <<>>
        ELSE SubSeq(s, CHOOSE i \in keep : \A j \in keep : i <= j, Len(s))

\* s.strip()
Strip(s) == LStrip(RStrip(s))

\* the separator of "SenderName: message body"
Separator == <<":", " ">>

\* Faulty variant: the text is split at the last separator (rsplit)
SplitLast(s, sep) ==
    LET occ == Occurrences(s, sep)
        i == CHOOSE k \in occ : \A j \in occ : j <= k
    IN  <<SubSeq(s, 1, i - 1), SubSeq(s, i + Len(sep), Len(s))>>

\* raw_text.split(': ', 1) when ': ' in raw_text: <<name_part, body_part>>
SplitFirst(s, sep) ==
    LET occ == Occurrences(s, sep)
        i == CHOOSE k \in occ : \A j \in occ : k <= j
    IN  <<SubSeq(s, 1, i - 1), SubSeq(s, i + Len(sep), Len(s))>>

\* str(n) for a small non-negative integer
Digits == <<"0","1","2","3","4","5","6","7","8","9">>
RECURSIVE IntStr(_)
IntStr(n) ==
    IF n < 10 THEN <<Digits[n + 1]>>
    ELSE IntStr(n \div 10) \o <<Digits[(n % 10) + 1]>>

\* str(channel): the channel index, or None
ChannelStr(channel) ==
    IF channel = <<>> THEN <<"N","o","n","e">> ELSE IntStr(channel[1])

\* '>'.join(parts)
RECURSIVE Join(_, _)
Join(parts, sep) ==
    IF Len(parts) = 0 THEN <<>>
    ELSE IF Len(parts) = 1 THEN parts[1]
    ELSE parts[1] \o sep \o Join(Tail(parts), sep)

(***************************************************************************)
(* Deduplication (ble_worker.py, "Deduplication").  Both caches are a set  *)
(* plus an insertion-order list; a cache is the record [set, order].       *)
(***************************************************************************)
\* Faulty variant: the eviction pops the newest entry: order.pop() for order.pop(0)
RECURSIVE EvictNewest(_)
EvictNewest(c) ==
    IF Len(c.order) > SEEN_HASHES_MAX
    THEN EvictNewest([set |-> c.set \ {c.order[Len(c.order)]},
                      order |-> SubSeq(c.order, 1, Len(c.order) - 1)])
    ELSE c

\* Faulty variant: the eviction pops the order list and forgets set.discard
RECURSIVE EvictOrderOnly(_)
EvictOrderOnly(c) ==
    IF Len(c.order) > SEEN_HASHES_MAX
    THEN EvictOrderOnly([set |-> c.set, order |-> Tail(c.order)])
    ELSE c

\* while len(order) > _SEEN_HASHES_MAX: oldest = order.pop(0); set.discard(oldest)
RECURSIVE EvictOldest(_)
EvictOldest(c) ==
    IF Len(c.order) > SEEN_HASHES_MAX
    THEN EvictOldest([set |-> c.set \ {Head(c.order)}, order |-> Tail(c.order)])
    ELSE c

\* Faulty variant: a key already present is moved to the newest position
\* (an LRU refresh) instead of being left where it is
MarkKeyLru(c, key) ==
    LET others == {i \in 1..Len(c.order) : c.order[i] # key}
        kept == [n \in 1..Cardinality(others) |->
                    c.order[CHOOSE i \in others :
                              Cardinality({j \in others : j <= i}) = n]]
    IN  EvictOldest([set |-> c.set \cup {key}, order |-> Append(kept, key)])

\* _mark_seen / _mark_content_seen after the key is computed
MarkKey(c, key) ==
    IF key \in c.set THEN c
    ELSE EvictOldest([set |-> c.set \cup {key}, order |-> Append(c.order, key)])

\* key = f"{channel}:{sender}:{text}"
ContentKey(sender, channel, text) ==
    ChannelStr(channel) \o <<":">> \o sender \o <<":">> \o text

\* Faulty variant: _mark_seen without the eviction loop
MarkSeenUnbounded(c, message_hash) ==
    IF message_hash \in c.set THEN c
    ELSE [set |-> c.set \cup {message_hash}, order |-> Append(c.order, message_hash)]

\* _mark_seen(message_hash)
MarkSeen(c, message_hash) == MarkKey(c, message_hash)

\* _mark_content_seen(sender, channel, text)
MarkContentSeen(c, sender, channel, text) ==
    MarkKey(c, ContentKey(sender, channel, text))

\* Faulty variant: the fallback handler goes on without the hash lookup
IsSeenUnchecked(c, message_hash) == FALSE

\* _is_seen(message_hash)
IsSeen(c, message_hash) == message_hash \in c.set

\* _is_content_seen(sender, channel, text)
IsContentSeen(c, sender, channel, text) ==
    ContentKey(sender, channel, text) \in c.set

HashCache == [set |-> seen_hashes, order |-> seen_hashes_order]
ContentCache == [set |-> seen_content, order |-> seen_content_order]

(***************************************************************************)
(* The bot (ble_worker.py, "BOT").                                         *)
(***************************************************************************)
\* A template is a sequence of parts: a literal, or a {variable}.
Lit(s) == [var |-> "", lit |-> s]
Var(v) == [var |-> v, lit |-> <<>>]

\* BOT_KEYWORDS in dict (insertion) order
BOT_KEYWORDS == <<
    [keyword  |-> <<"t","e","s","t">>,
     template |-> << Var("bot"), Lit(<<":"," ">>), Var("sender"),
                     Lit(<<","," ","r","c","v","d"," ","|"," ","S","N","R"," ">>),
                     Var("snr"), Lit(<<" ","|"," ">>), Var("path") >>],
    [keyword  |-> <<"p","i","n","g">>,
     template |-> << Var("bot"), Lit(<<":"," ","P","o","n","g","!">>) >>],
    [keyword  |-> <<"h","e","l","p">>,
     template |-> << Var("bot"),
                     Lit(<<":"," ","t","e","s","t",","," ","p","i","n","g",
                           ","," ","h","e","l","p">>) >>] >>

\* Faulty variant: the hop identifiers are joined as they come, not upper-cased
FormatPathAsIs(path_len, path_hashes) ==
    LET n == <<"p","a","t","h","(">> \o IntStr(path_len) \o <<")">>
        usable == SelectSeq(path_hashes, LAMBDA h : h # <<>> /\ Len(h) >= 2)
    IN  IF path_len = 0 THEN <<"p","a","t","h","(","0",")">>
        ELSE IF usable # <<>> THEN n \o <<";"," ">> \o Join(usable, <<">">>)
        ELSE n

\* _format_path(path_len, path_hashes); an absent path_hashes (None) is <<>>
FormatPath(path_len, path_hashes) ==
    LET n == <<"p","a","t","h","(">> \o IntStr(path_len) \o <<")">>
        usable == SelectSeq(path_hashes, LAMBDA h : h # <<>> /\ Len(h) >= 2)
        hop_names == [i \in 1..Len(usable) |-> Upper(usable[i])]
    IN  IF path_len = 0 THEN <<"p","a","t","h","(","0",")">>
        ELSE IF path_hashes = <<>> THEN n
        ELSE IF hop_names # <<>> THEN n \o <<";"," ">> \o Join(hop_names, <<">">>)
        ELSE n

\* f"{snr:.1f}" if snr is not None else "?"; snr is held in tenths
SnrStr(snr) ==
    IF snr = <<>> THEN <<"?">>
    ELSE LET t == snr[1]
             a == IF t < 0 THEN 0 - t ELSE t
         IN  (IF t < 0 THEN <<"-">> ELSE <<>>)
             \o IntStr(a \div 10) \o <<".">> \o IntStr(a % 10)

\* matched_template.format(bot=..., sender=..., snr=..., path=...)
RECURSIVE Format(_, _)
Format(template, values) ==
    IF template = <<>> THEN <<>>
    ELSE (IF Head(template).var = "" THEN Head(template).lit
          ELSE values[Head(template).var])
         \o Format(Tail(template), values)

\* Faulty variant: guard 2 lets a message without channel index through
WrongChannelUnlessNone(channel_idx) ==
    channel_idx # <<>> /\ channel_idx # <<BOT_CHANNEL>>

\* Guard 2: channel_idx != BOT_CHANNEL
WrongChannel(channel_idx) == channel_idx # <<BOT_CHANNEL>>

\* Faulty variant: guard 3 without the test of the text
IsOwnMessageBySenderOnly(sender, text) == sender = <<"M","e">>

\* Guard 3: sender == 'Me' or (text and text.startswith(BOT_NAME))
IsOwnMessage(sender, text) ==
    sender = <<"M","e">> \/ (text # <<>> /\ StartsWith(text, BOT_NAME))

\* Faulty variant: guard 4 without .lower(): only a lower-case "bot" is caught
IsOtherBotCaseSensitive(sender) ==
    sender # <<>> /\ EndsWith(RStrip(sender), <<"b","o","t">>)

\* Guard 4: sender and sender.rstrip().lower().endswith('bot')
IsOtherBot(sender) ==
    sender # <<>> /\ EndsWith(Lower(RStrip(sender)), <<"b","o","t">>)

\* Faulty variant: guard 5 with <= for <: a reply is still refused when exactly
\* the cooldown has passed
CooldownActiveInclusive(t, last) == t - last <= BOT_COOLDOWN_SECONDS

\* Guard 5: now - self._bot_last_reply < BOT_COOLDOWN_SECONDS
CooldownActive(t, last) == t - last < BOT_COOLDOWN_SECONDS

\* Guard 6: the templates whose keyword is in text.lower(), in dict order
MatchedTemplates(text) ==
    SelectSeq(BOT_KEYWORDS, LAMBDA k : Contains(Lower(text), k.keyword))

\* The reply _bot_check_and_queue builds: <<>> when a guard rejects the
\* message, else <<reply text>>.
BotReply(enabled, t, last, sender, text, channel_idx, snr, path_len, path_hashes) ==
    IF ~enabled THEN <<>>
    ELSE IF WrongChannel(channel_idx) THEN <<>>
    ELSE IF IsOwnMessage(sender, text) THEN <<>>
    ELSE IF IsOtherBot(sender) THEN <<>>
    ELSE IF CooldownActive(t, last) THEN <<>>
    ELSE IF MatchedTemplates(text) = <<>> THEN <<>>
    ELSE << Format(Head(MatchedTemplates(text)).template,
                   [bot    |-> BOT_NAME,
                    sender |-> IF sender # <<>> THEN sender ELSE <<"?">>,
                    snr    |-> SnrStr(snr),
                    path   |-> FormatPath(path_len, path_hashes)]) >>

\* The command _bot_check_and_queue puts: action send_message, _bot True
BotCommand(id, reply) ==
    [id |-> id, action |-> "send_message", channel |-> BOT_CHANNEL,
     text |-> reply, bot |-> TRUE, pubkey |-> <<>>]

(***************************************************************************)
(* Inputs: the transmissions heard on the mesh and the events the          *)
(* transport delivers for them.                                            *)
(***************************************************************************)
\* A transmission: what the decoder yields for its raw frame, with the SNR
\* (in tenths) the radio measured.
Transmissions == <<
    [message_hash |-> "h1", channel_idx |-> 1, sender |-> <<"a","l">>,
     text |-> <<"T","e","s","t">>, path_length |-> 2,
     path_hashes |-> << <<"8","d">>, <<"a","8">> >>, snr |-> <<75>>],
    [message_hash |-> "h2", channel_idx |-> 1,
     sender |-> <<"x","B","o","t">>,
     text |-> <<"p","i","n","g">>, path_length |-> 0,
     path_hashes |-> <<>>, snr |-> <<>>],
    [message_hash |-> "h3", channel_idx |-> 0, sender |-> <<"a","l">>,
     text |-> <<"p","i","n","g">>, path_length |-> 1,
     path_hashes |-> << <<"8","d">> >>, snr |-> <<0 - 30>>],
    [message_hash |-> "h4", channel_idx |-> 1,
     sender |-> <<"x","B","O","T"," ">>,
     text |-> <<"h","e","l","p">>, path_length |-> 0,
     path_hashes |-> <<>>, snr |-> <<>>],
    [message_hash |-> "h5", channel_idx |-> 1, sender |-> <<"a",":","b">>,
     text |-> <<"c">>, path_length |-> 0,
     path_hashes |-> <<>>, snr |-> <<>>],
    [message_hash |-> "h6", channel_idx |-> 1, sender |-> <<"a">>,
     text |-> <<"b",":","c">>, path_length |-> 0,
     path_hashes |-> <<>>, snr |-> <<>>],
    [message_hash |-> "h7", channel_idx |-> 0, sender |-> <<"a","l">>,
     text |-> <<"p","i","n","g">>, path_length |-> 0,
     path_hashes |-> <<>>, snr |-> <<>>],
    [message_hash |-> "h8", channel_idx |-> 1, sender |-> <<"a","l">>,
     text |-> <<"h","e","l","p">>, path_length |-> 0,
     path_hashes |-> <<>>, snr |-> <<>>],
    [message_hash |-> "h11", channel_idx |-> 0, sender |-> <<"b","o">>,
     text |-> <<"h","i">>, path_length |-> 1,
     path_hashes |-> << <<"a","8">> >>, snr |-> <<>>],
    [message_hash |-> "h12", channel_idx |-> 0, sender |-> <<"b","o">>,
     text |-> <<"y","o">>, path_length |-> 1,
     path_hashes |-> << <<"a","8">> >>, snr |-> <<>>],
    [message_hash |-> "h13", channel_idx |-> 0, sender |-> <<"a","l">>,
     text |-> <<"p","i","n","g">>, path_length |-> 1,
     path_hashes |-> << <<"8","d">> >>, snr |-> <<>>] >>

\* the transmissions heard while the two notifications are reconciled
TxIds == {1, 2, 3}

\* PacketDecoder.decode(payload_hex) for the frame of transmission i, by
\* what the decoder can do with it
Decoded(i, outcome) ==
    LET t == Transmissions[i]
        d == [payload_type |-> "GroupText", is_decrypted |-> TRUE,
              message_hash |-> t.message_hash, sender |-> t.sender,
              text |-> t.text, channel_idx |-> t.channel_idx,
              path_length |-> t.path_length, path_hashes |-> t.path_hashes]
    IN  CASE outcome = "ok"        -> <<d>>
          [] outcome = "encrypted" -> <<[d EXCEPT !.is_decrypted = FALSE,
                                                  !.sender = <<>>, !.text = <<>>]>>
          [] outcome = "othertype" -> <<[d EXCEPT !.payload_type = "Advert"]>>
          [] OTHER                 -> <<>>

\* The RX_LOG_DATA event of transmission i
RxEvent(i, outcome) ==
    [snr |-> Transmissions[i].snr, path_len |-> Transmissions[i].path_length,
     has_payload |-> outcome # "nopayload", decoded |-> Decoded(i, outcome)]

\* The CHANNEL_MSG_RECV event of transmission i: the text "Sender: body",
\* the hop count, and the message_hash when the firmware supplies one
ChannelEvent(i, with_hash) ==
    LET t == Transmissions[i]
    IN  [text |-> t.sender \o Separator \o t.text,
         channel_idx |-> <<t.channel_idx>>, path_len |-> t.path_length,
         message_hash |-> IF with_hash THEN t.message_hash ELSE "",
         SNR |-> t.snr]

\* shared.get_contact_by_name(name): the pubkey of the first contact with
\* that name, or None
Contacts == << [name |-> <<"a","l">>, pubkey |-> <<"8","d","4","1">>] >>
GetContactByName(name) ==
    LET hits == SelectSeq(Contacts, LAMBDA c : c.name = name)
    IN  IF hits = <<>> THEN <<>> ELSE <<Head(hits).pubkey>>

\* shared.get_contact_name_by_prefix(prefix): the name, or ''
GetContactNameByPrefix(prefix) ==
    LET hits == SelectSeq(Contacts, LAMBDA c : StartsWith(c.pubkey, prefix))
    IN  IF hits = <<>> THEN <<>> ELSE Head(hits).name

\* A record handed to shared.add_message (the 'time' stamp is left out)
Message(sender, text, channel, direction, snr, path_len, sender_pubkey, path_hashes, message_hash) ==
    [sender |-> sender, text |-> text, channel |-> channel,
     direction |-> direction, snr |-> snr, path_len |-> path_len,
     sender_pubkey |-> sender_pubkey, path_hashes |-> path_hashes,
     message_hash |-> message_hash]

\* The callbacks run on the worker's event loop: only once subscribed, and
\* only while the worker coroutine is suspended in an await.
Suspended ==
    \/ pc \in {"await_cmd", "sleep"}
    \/ pc = "connect" /\ conn_pc \in {"load", "chankeys", "autofetch"}

CallbackMayRun == subscribed /\ Suspended

(***************************************************************************)
(* Event callbacks (ble_worker.py, "Event callbacks").                     *)
(***************************************************************************)
\* shared.put_command(c): the command queue is first-in first-out
QueuePut(q, c) == Append(q, c)

\* shared.get_next_command(): the oldest command, which leaves the queue
QueueNext(q) == Head(q)
QueueRest(q) == Tail(q)

\* Faulty variant: the stamp is set whenever the bot is consulted, reply or not
BotLastAfterConsulted(reply) == now

\* _bot_check_and_queue as called from a callback: the cooldown stamp and
\* the queue after it
BotLastAfter(reply) == IF reply = <<>> THEN bot_last_reply ELSE now
QueueAfter(reply) ==
    IF reply = <<>> THEN queue
    ELSE QueuePut(queue, BotCommand(next_id + 1, reply[1]))
NextIdAfter(reply) == IF reply = <<>> THEN next_id ELSE next_id + 1

\* Faulty variant: any decoded GroupText counts as a message, decrypted or not
IsChannelMessageUndecrypted(ev) ==
    /\ ev.has_payload
    /\ ev.decoded # <<>>
    /\ ev.decoded[1].payload_type = "GroupText"

\* _on_rx_log goes on to publish: the event has a payload, the decoder
\* returned a packet, and it is a decrypted GroupText
IsChannelMessage(ev) ==
    /\ ev.has_payload
    /\ ev.decoded # <<>>
    /\ ev.decoded[1].payload_type = "GroupText"
    /\ ev.decoded[1].is_decrypted

\* _on_rx_log(event)
OnRxLog(ev) ==
    /\ CallbackMayRun
    /\ rx_log' = rx_log + 1
    /\ IF IsChannelMessage(ev)
       THEN LET d == ev.decoded[1]
                hc == MarkSeen(HashCache, d.message_hash)
                cc == MarkContentSeen(ContentCache, d.sender,
                                      <<d.channel_idx>>, d.text)
                pk == IF d.sender # <<>> /\ GetContactByName(d.sender) # <<>>
                      THEN GetContactByName(d.sender)[1] ELSE <<>>
                reply == BotReply(bot_enabled, now, bot_last_reply, d.sender,
                                  d.text, <<d.channel_idx>>, ev.snr,
                                  d.path_length, d.path_hashes)
            IN  /\ Len(messages) < MaxMessages
                /\ reply # <<>> => next_id < MaxCommands
                /\ seen_hashes' = hc.set
                /\ seen_hashes_order' = hc.order
                /\ seen_content' = cc.set
                /\ seen_content_order' = cc.order
                /\ messages' = Append(messages,
                       Message(d.sender, d.text, <<d.channel_idx>>, "in",
                               ev.snr, d.path_length, pk, d.path_hashes,
                               d.message_hash))
                /\ bot_last_reply' = BotLastAfter(reply)
                /\ queue' = QueueAfter(reply)
                /\ next_id' = NextIdAfter(reply)
       ELSE /\ rx_log < MaxMessages
            /\ UNCHANGED <<cacheVars, messages, bot_last_reply, queue, next_id>>
    /\ UNCHANGED <<pc, connVars, loadVars, status, running, cur, sent, now,
                   bot_enabled>>
    /\ UNCHANGED routeVars

\* Faulty variant: the fallback handler records the content key of what it
\* publishes
OnChannelMsgMarking(ev) ==
    /\ CallbackMayRun
    /\ IF ev.message_hash # "" /\ IsSeen(HashCache, ev.message_hash)
       THEN UNCHANGED <<messages, bot_last_reply, queue, next_id, cacheVars>>
       ELSE LET has_sep == Contains(ev.text, Separator)
                parts == SplitFirst(ev.text, Separator)
                sender == IF has_sep THEN Strip(parts[1]) ELSE <<>>
                msg_text == IF has_sep THEN parts[2] ELSE ev.text
                msg_snr == IF ev.SNR # <<>> /\ ev.SNR[1] # 0 THEN ev.SNR ELSE <<>>
                pk == IF sender # <<>> /\ GetContactByName(sender) # <<>>
                      THEN GetContactByName(sender)[1] ELSE <<>>
                reply == BotReply(bot_enabled, now, bot_last_reply, sender,
                                  msg_text, ev.channel_idx, msg_snr,
                                  ev.path_len, <<>>)
            IN  IF IsContentSeen(ContentCache, sender, ev.channel_idx, msg_text)
                THEN UNCHANGED <<messages, bot_last_reply, queue, next_id, cacheVars>>
                ELSE /\ Len(messages) < MaxMessages
                     /\ seen_content' = MarkContentSeen(ContentCache, sender,
                                            ev.channel_idx, msg_text).set
                     /\ seen_content_order' = MarkContentSeen(ContentCache, sender,
                                            ev.channel_idx, msg_text).order
                     /\ UNCHANGED <<seen_hashes, seen_hashes_order>>
                     /\ reply # <<>> => next_id < MaxCommands
                     /\ messages' = Append(messages,
                            Message(sender, msg_text, ev.channel_idx, "in",
                                    msg_snr, ev.path_len, pk, <<>>,
                                    ev.message_hash))
                     /\ bot_last_reply' = BotLastAfter(reply)
                     /\ queue' = QueueAfter(reply)
                     /\ next_id' = NextIdAfter(reply)
    /\ UNCHANGED <<pc, connVars, loadVars, status, running, cur, sent, now,
                   bot_enabled, rx_log>>
    /\ UNCHANGED routeVars

\* _on_channel_msg(event)
OnChannelMsg(ev) ==
    /\ CallbackMayRun
    /\ IF ev.message_hash # "" /\ IsSeen(HashCache, ev.message_hash)
       THEN UNCHANGED <<messages, bot_last_reply, queue, next_id>>
       ELSE LET has_sep == Contains(ev.text, Separator)
                parts == SplitFirst(ev.text, Separator)
                sender == IF has_sep THEN Strip(parts[1]) ELSE <<>>
                msg_text == IF has_sep THEN parts[2] ELSE ev.text
                msg_snr == IF ev.SNR # <<>> /\ ev.SNR[1] # 0 THEN ev.SNR ELSE <<>>
                pk == IF sender # <<>> /\ GetContactByName(sender) # <<>>
                      THEN GetContactByName(sender)[1] ELSE <<>>
                reply == BotReply(bot_enabled, now, bot_last_reply, sender,
                                  msg_text, ev.channel_idx, msg_snr,
                                  ev.path_len, <<>>)
            IN  IF IsContentSeen(ContentCache, sender, ev.channel_idx, msg_text)
                THEN UNCHANGED <<messages, bot_last_reply, queue, next_id>>
                ELSE /\ Len(messages) < MaxMessages
                     /\ reply # <<>> => next_id < MaxCommands
                     /\ messages' = Append(messages,
                            Message(sender, msg_text, ev.channel_idx, "in",
                                    msg_snr, ev.path_len, pk, <<>>,
                                    ev.message_hash))
                     /\ bot_last_reply' = BotLastAfter(reply)
                     /\ queue' = QueueAfter(reply)
                     /\ next_id' = NextIdAfter(reply)
    /\ UNCHANGED <<pc, connVars, loadVars, status, running, cur, sent, now,
                   bot_enabled, cacheVars, rx_log>>
    /\ UNCHANGED routeVars

\* _on_contact_msg(event): a received direct message
OnContactMsg(ev) ==
    /\ CallbackMayRun
    /\ Len(messages) < MaxMessages
    /\ LET named == IF ev.pubkey_prefix # <<>>
                    THEN GetContactNameByPrefix(ev.pubkey_prefix) ELSE <<>>
           sender == IF named # <<>> THEN named
                     ELSE SubSeq(ev.pubkey_prefix, 1,
                                 IF Len(ev.pubkey_prefix) < 8
                                 THEN Len(ev.pubkey_prefix) ELSE 8)
           msg_snr == IF ev.SNR # <<>> /\ ev.SNR[1] # 0 THEN ev.SNR ELSE <<>>
       IN  messages' = Append(messages,
               Message(sender, ev.text, <<>>, "in", msg_snr, ev.path_len,
                       ev.pubkey_prefix, <<>>, ""))
    /\ UNCHANGED <<pc, connVars, loadVars, status, running, cur, sent, now,
                   bot_enabled, cacheVars, rx_log, bot_last_reply, queue,
                   next_id>>
    /\ UNCHANGED routeVars

(***************************************************************************)
(* The environment: the clock, and the GUI thread.                         *)
(***************************************************************************)
\* time.time() counts seconds since the epoch, far more than the cooldown
\* after the initial stamp 0.0; the clock starts at the least such value.
StartTime == BOT_COOLDOWN_SECONDS

\* one second passes
Tick ==
    /\ now < StartTime + MaxTicks
    /\ now' = now + 1
    /\ UNCHANGED <<pc, connVars, loadVars, status, running, queue, cur, sent,
                   messages, cacheVars, bot_last_reply, bot_enabled, next_id,
                   rx_log, pending>>
    /\ UNCHANGED routeVars

\* The commands the GUI puts (shared.put_command)
GuiCommands == {
    [action |-> "send_message", channel |-> 1, text |-> <<"h","i">>,
     bot |-> FALSE, pubkey |-> <<>>],
    [action |-> "send_message", channel |-> 1, text |-> <<>>,
     bot |-> FALSE, pubkey |-> <<>>],
    [action |-> "send_dm", channel |-> 0, text |-> <<"y","o">>,
     bot |-> FALSE, pubkey |-> <<"8","d","4","1">>],
    [action |-> "send_advert", channel |-> 0, text |-> <<>>,
     bot |-> FALSE, pubkey |-> <<>>] }

RefreshCommand ==
    [action |-> "refresh", channel |-> 0, text |-> <<>>, bot |-> FALSE,
     pubkey |-> <<>>]

\* shared.put_command(c) from the GUI thread: appended to the FIFO queue
PutCommand(c) ==
    /\ next_id < MaxCommands
    /\ next_id' = next_id + 1
    /\ queue' = QueuePut(queue, [id |-> next_id + 1, action |-> c.action,
                                 channel |-> c.channel, text |-> c.text,
                                 bot |-> c.bot, pubkey |-> c.pubkey])
    /\ UNCHANGED <<pc, connVars, loadVars, status, running, cur, sent,
                   messages, cacheVars, bot_last_reply, now, bot_enabled,
                   rx_log, pending>>
    /\ UNCHANGED routeVars

\* the GUI's bot checkbox is switched
SetBotEnabled ==
    /\ bot_enabled' = ~bot_enabled
    /\ UNCHANGED <<pc, connVars, loadVars, status, running, queue, cur, sent,
                   messages, cacheVars, bot_last_reply, now, next_id, rx_log, pending>>
    /\ UNCHANGED routeVars

\* worker.running = False
Stop ==
    /\ running
    /\ running' = FALSE
    /\ UNCHANGED <<pc, connVars, loadVars, status, queue, cur, sent, messages,
                   cacheVars, bot_last_reply, now, bot_enabled, next_id, rx_log, pending>>
    /\ UNCHANGED routeVars

(***************************************************************************)
(* _load_data: one step per awaited device query, with what follows it up  *)
(* to the next await.                                                      *)
(***************************************************************************)
\* range(5): attempts of send_appstart and of send_device_query
LOAD_ATTEMPTS == 5
\* range(3): attempts of get_channel per channel
KEY_ATTEMPTS == 3
\* the idx values of CHANNELS_CONFIG, in order
CHANNELS_CONFIG == <<0, 1, 2, 3>>

\* What a device query may do: answer, answer with EventType.ERROR, or raise
QueryOutcomes == {"ok", "error", "raise"}

\* Faulty variant: a query that answers with an error is sent again once
\* more than range(5) allows
LoadNextOneMore(outcome) ==
    LET retry == [ld_pc |-> ld_pc, attempt |-> attempt + 1, loaded |-> loaded,
                  status |-> status, done |-> FALSE]
        toDevquery(l) == [ld_pc |-> "devquery", attempt |-> 0, loaded |-> l,
                          status |-> status, done |-> FALSE]
        toContacts(l) == [ld_pc |-> "contacts", attempt |-> 0, loaded |-> l,
                          status |-> "contacts", done |-> FALSE]
        finish(l) == [ld_pc |-> "idle", attempt |-> 0, loaded |-> l,
                      status |-> status, done |-> TRUE]
    IN  CASE ld_pc = "appstart" ->
                IF outcome = "ok"
                THEN toDevquery([loaded EXCEPT !.appstart = @ + 1])
                ELSE IF attempt < LOAD_ATTEMPTS THEN retry
                ELSE toDevquery(loaded)
          [] ld_pc = "devquery" ->
                IF outcome = "ok"
                THEN toContacts([loaded EXCEPT !.devquery = @ + 1])
                ELSE IF attempt < LOAD_ATTEMPTS THEN retry
                ELSE toContacts(loaded)
          [] OTHER ->
                IF outcome = "ok"
                THEN finish([loaded EXCEPT !.contacts = @ + 1])
                ELSE finish(loaded)

\* The state of _load_data after the query it is waiting for returned
\* `outcome` (not "raise"): [ld_pc, attempt, loaded, status, done]
LoadNext(outcome) ==
    LET retry == [ld_pc |-> ld_pc, attempt |-> attempt + 1, loaded |-> loaded,
                  status |-> status, done |-> FALSE]
        toDevquery(l) == [ld_pc |-> "devquery", attempt |-> 0, loaded |-> l,
                          status |-> status, done |-> FALSE]
        toContacts(l) == [ld_pc |-> "contacts", attempt |-> 0, loaded |-> l,
                          status |-> "contacts", done |-> FALSE]
        finish(l) == [ld_pc |-> "idle", attempt |-> 0, loaded |-> l,
                      status |-> status, done |-> TRUE]
    IN  CASE ld_pc = "appstart" ->
                IF outcome = "ok"
                THEN toDevquery([loaded EXCEPT !.appstart = @ + 1])
                ELSE IF attempt + 1 < LOAD_ATTEMPTS THEN retry
                ELSE toDevquery(loaded)
          [] ld_pc = "devquery" ->
                IF outcome = "ok"
                THEN toContacts([loaded EXCEPT !.devquery = @ + 1])
                ELSE IF attempt + 1 < LOAD_ATTEMPTS THEN retry
                ELSE toContacts(loaded)
          [] OTHER ->
                IF outcome = "ok"
                THEN finish([loaded EXCEPT !.contacts = @ + 1])
                ELSE finish(loaded)

(***************************************************************************)
(* _async_main and _connect.                                               *)
(***************************************************************************)
\* _async_main once _connect has returned: if self.mc: while self.running
AfterConnect(session) == IF session THEN "head" ELSE "done"

\* _connect up to its first await: set_status, then MeshCore.create_ble
ConnectStart ==
    /\ pc = "connect" /\ conn_pc = "start"
    /\ status' = "connecting"
    /\ conn_pc' = "create"
    /\ UNCHANGED <<pc, mc, subscribed, connected, ch_i, chan_keys, loadVars,
                   running, queue, cur, sent, messages, cacheVars,
                   bot_last_reply, now, bot_enabled, next_id, rx_log, pending>>
    /\ UNCHANGED routeVars

\* create_ble returns the session, or raises; on a raise the except branch
\* publishes the error and _async_main finds self.mc unset
CreateBle(outcome) ==
    /\ pc = "connect" /\ conn_pc = "create"
    /\ IF outcome = "ok"
       THEN /\ mc' = TRUE
            /\ conn_pc' = "settle"
            /\ UNCHANGED <<pc, status>>
       ELSE /\ status' = "error"
            /\ conn_pc' = "failed"
            /\ pc' = AfterConnect(mc)
            /\ UNCHANGED mc
    /\ UNCHANGED <<subscribed, connected, ch_i, chan_keys, loadVars, running,
                   queue, cur, sent, messages, cacheVars, bot_last_reply, now,
                   bot_enabled, next_id, rx_log, pending>>
    /\ UNCHANGED routeVars

\* asyncio.sleep(1) ends: the callbacks are subscribed and _load_data issues
\* its first query
Subscribe ==
    /\ pc = "connect" /\ conn_pc = "settle"
    /\ subscribed' = TRUE
    /\ status' = "device_info"
    /\ conn_pc' = "load"
    /\ ld_pc' = "appstart"
    /\ attempt' = 0
    /\ UNCHANGED <<pc, mc, connected, ch_i, chan_keys, loaded, running, queue,
                   cur, sent, messages, cacheVars, bot_last_reply, now,
                   bot_enabled, next_id, rx_log, pending>>
    /\ UNCHANGED routeVars

\* a query of _load_data returns inside _connect; after the last one
\* _load_channel_keys issues its first get_channel
ConnectLoad(outcome) ==
    /\ pc = "connect" /\ conn_pc = "load"
    /\ IF outcome = "raise"
       THEN /\ status' = "error"
            /\ conn_pc' = "failed"
            /\ pc' = AfterConnect(mc)
            /\ ld_pc' = "idle"
            /\ attempt' = 0
            /\ UNCHANGED <<loaded, ch_i>>
       ELSE LET n == LoadNext(outcome)
            IN  /\ ld_pc' = n.ld_pc
                /\ attempt' = n.attempt
                /\ loaded' = n.loaded
                /\ status' = IF n.done THEN "channel_keys" ELSE n.status
                /\ conn_pc' = IF n.done THEN "chankeys" ELSE "load"
                /\ ch_i' = IF n.done THEN 1 ELSE ch_i
                /\ UNCHANGED pc
    /\ UNCHANGED <<mc, subscribed, connected, chan_keys, running, queue, cur,
                   sent, messages, cacheVars, bot_last_reply, now, bot_enabled,
                   next_id, rx_log, pending>>
    /\ UNCHANGED routeVars

\* What get_channel may do: answer with a valid channel_secret, answer
\* without one, answer with EventType.ERROR, or raise
KeyOutcomes == {"secret", "nosecret", "error", "raise"}

\* Faulty variant: a get_channel that raises is not caught inside the loop
\* and ends _connect through its except branch
ChannelKeyAbortOnRaise(outcome) ==
    /\ pc = "connect" /\ conn_pc = "chankeys"
    /\ LET idx == CHANNELS_CONFIG[ch_i]
           settled == outcome = "secret" \/ attempt + 1 >= KEY_ATTEMPTS
           last == ch_i = Len(CHANNELS_CONFIG)
       IN  IF outcome = "raise"
           THEN /\ status' = "error"
                /\ conn_pc' = "failed"
                /\ pc' = AfterConnect(mc)
                /\ attempt' = 0
                /\ UNCHANGED <<chan_keys, ch_i>>
           ELSE /\ chan_keys' =
                      IF outcome = "secret"
                      THEN [chan_keys EXCEPT ![idx] = "device"]
                      ELSE IF settled THEN [chan_keys EXCEPT ![idx] = "derived"]
                      ELSE chan_keys
                /\ attempt' = IF settled THEN 0 ELSE attempt + 1
                /\ ch_i' = IF settled /\ ~last THEN ch_i + 1 ELSE ch_i
                /\ conn_pc' = IF settled /\ last THEN "autofetch" ELSE "chankeys"
                /\ UNCHANGED <<pc, status>>
    /\ UNCHANGED <<mc, subscribed, connected, ld_pc, loaded,
                   running, queue, cur, sent, messages, cacheVars,
                   bot_last_reply, now, bot_enabled, next_id, rx_log, pending>>
    /\ UNCHANGED routeVars

\* one get_channel attempt of _load_channel_keys returns; after the last
\* channel start_auto_message_fetching is called
ChannelKey(outcome) ==
    /\ pc = "connect" /\ conn_pc = "chankeys"
    /\ LET idx == CHANNELS_CONFIG[ch_i]
           settled == outcome = "secret" \/ attempt + 1 >= KEY_ATTEMPTS
           last == ch_i = Len(CHANNELS_CONFIG)
       IN  /\ chan_keys' =
                 IF outcome = "secret"
                 THEN [chan_keys EXCEPT ![idx] = "device"]
                 ELSE IF settled THEN [chan_keys EXCEPT ![idx] = "derived"]
                 ELSE chan_keys
           /\ attempt' = IF settled THEN 0 ELSE attempt + 1
           /\ ch_i' = IF settled /\ ~last THEN ch_i + 1 ELSE ch_i
           /\ conn_pc' = IF settled /\ last THEN "autofetch" ELSE "chankeys"
    /\ UNCHANGED <<pc, mc, subscribed, connected, status, ld_pc, loaded,
                   running, queue, cur, sent, messages, cacheVars,
                   bot_last_reply, now, bot_enabled, next_id, rx_log, pending>>
    /\ UNCHANGED routeVars

\* start_auto_message_fetching returns (set_connected, set_status) or
\* raises (the except branch); either way _connect ends and _async_main
\* tests self.mc
AutoFetch(outcome) ==
    /\ pc = "connect" /\ conn_pc = "autofetch"
    /\ IF outcome = "ok"
       THEN /\ connected' = TRUE
            /\ status' = "connected"
            /\ conn_pc' = "ready"
       ELSE /\ status' = "error"
            /\ conn_pc' = "failed"
            /\ UNCHANGED connected
    /\ pc' = AfterConnect(mc)
    /\ UNCHANGED <<mc, subscribed, ch_i, chan_keys, loadVars, running, queue,
                   cur, sent, messages, cacheVars, bot_last_reply, now,
                   bot_enabled, next_id, rx_log, pending>>
    /\ UNCHANGED routeVars

\* Faulty variant: the loop of _async_main does not test self.running
LoopHeadForever ==
    /\ pc = "head"
    /\ pc' = "drain"
    /\ UNCHANGED <<connVars, loadVars, status, running, queue, cur, sent,
                   messages, cacheVars, bot_last_reply, now, bot_enabled,
                   next_id, rx_log, pending>>
    /\ UNCHANGED routeVars

\* while self.running:
LoopHead ==
    /\ pc = "head"
    /\ pc' = IF running THEN "drain" ELSE "done"
    /\ UNCHANGED <<connVars, loadVars, status, running, queue, cur, sent,
                   messages, cacheVars, bot_last_reply, now, bot_enabled,
                   next_id, rx_log, pending>>
    /\ UNCHANGED routeVars

\* asyncio.sleep(0.1) ends
Wake ==
    /\ pc = "sleep"
    /\ pc' = "head"
    /\ UNCHANGED <<connVars, loadVars, status, running, queue, cur, sent,
                   messages, cacheVars, bot_last_reply, now, bot_enabled,
                   next_id, rx_log, pending>>
    /\ UNCHANGED routeVars

(***************************************************************************)
(* Command handling (ble_worker.py, "Command handling").                   *)
(***************************************************************************)
\* The device call _handle_command awaits for cmd, or "" when it makes none
DeviceCall(cmd) ==
    CASE cmd.action = "send_message" ->
            IF cmd.text # <<>> /\ mc THEN "send_chan_msg" ELSE ""
      [] cmd.action = "send_advert" -> IF mc THEN "send_advert" ELSE ""
      [] cmd.action = "send_dm" ->
            IF cmd.text # <<>> /\ cmd.pubkey # <<>> /\ mc THEN "send_msg" ELSE ""
      [] cmd.action = "refresh" -> IF mc THEN "send_appstart" ELSE ""
      [] OTHER -> ""

\* Faulty variant: the local echo without the "if not is_bot" test
LocalEchoIgnoringBot(cmd) ==
    CASE cmd.action = "send_message" ->
            <<Message(<<"M","e">>, cmd.text, <<cmd.channel>>, "out", <<>>,
                      0, <<>>, <<>>, "")>>
      [] cmd.action = "send_dm" ->
            <<Message(<<"M","e">>, cmd.text, <<>>, "out", <<>>, 0, cmd.pubkey,
                      <<>>, "")>>
      [] OTHER -> <<>>

\* The local echo _handle_command publishes once the send returned:
\* <<>> or <<message>>
LocalEcho(cmd) ==
    CASE cmd.action = "send_message" ->
            IF ~cmd.bot
            THEN <<Message(<<"M","e">>, cmd.text, <<cmd.channel>>, "out", <<>>,
                           0, <<>>, <<>>, "")>>
            ELSE <<>>
      [] cmd.action = "send_dm" ->
            <<Message(<<"M","e">>, cmd.text, <<>>, "out", <<>>, 0, cmd.pubkey,
                      <<>>, "")>>
      [] OTHER -> <<>>

\* Faulty variant: the handler is started without being awaited, so the loop
\* fetches the next command while a send is still in flight
AtGetNextCommandUnawaited == pc \in {"drain", "await_cmd"}

\* The worker is at get_next_command() in _process_commands: it is in the
\* loop and the handler it awaited ("await self._handle_command(cmd)") has
\* returned
AtGetNextCommand == pc = "drain"

\* One turn of the loop of _process_commands: get_next_command(), and
\* _handle_command(cmd) up to the device call it awaits (or to its end when
\* it makes none).  The queue hands out its oldest command.
Drain ==
    /\ AtGetNextCommand
    /\ IF queue = <<>>
       THEN /\ pc' = "sleep"
            /\ UNCHANGED <<queue, cur, sent, status, loadVars>>
       ELSE LET cmd == QueueNext(queue)
                call == DeviceCall(cmd)
            IN  /\ queue' = QueueRest(queue)
                /\ IF call = ""
                   THEN UNCHANGED <<pc, cur, sent, status, loadVars>>
                   ELSE /\ pc' = "await_cmd"
                        /\ cur' = <<cmd>>
                        /\ sent' = Append(sent, [id |-> cmd.id, call |-> call, bot |-> cmd.bot,
                                               text |-> cmd.text])
                        /\ IF cmd.action = "refresh"
                           THEN /\ status' = "device_info"
                                /\ ld_pc' = "appstart"
                                /\ attempt' = 0
                                /\ UNCHANGED loaded
                           ELSE UNCHANGED <<status, loadVars>>
    /\ UNCHANGED <<connVars, running, messages, cacheVars, bot_last_reply, now,
                   bot_enabled, next_id, rx_log, pending>>
    /\ UNCHANGED routeVars

\* Faulty variant: the local echo goes through the content dedup like an
\* incoming message: it is dropped when its key is cached and cached
\* otherwise
ResumeCommandDeduped(outcome) ==
    /\ pc = "await_cmd"
    /\ cur # <<>> /\ cur[1].action # "refresh"
    /\ cur' = <<>>
    /\ LET echo == LocalEcho(cur[1])
           seen == echo # <<>> /\ IsContentSeen(ContentCache, echo[1].sender,
                                                echo[1].channel, echo[1].text)
       IN  IF outcome = "raise"
           THEN /\ pc' = "crashed"
                /\ UNCHANGED <<messages, status, cacheVars>>
           ELSE /\ pc' = "drain"
                /\ IF echo = <<>> \/ seen
                   THEN UNCHANGED <<messages, cacheVars>>
                   ELSE LET c == MarkContentSeen(ContentCache, echo[1].sender,
                                                 echo[1].channel, echo[1].text)
                        IN  /\ messages' = messages \o echo
                            /\ seen_content' = c.set
                            /\ seen_content_order' = c.order
                            /\ UNCHANGED <<seen_hashes, seen_hashes_order>>
                /\ status' = IF cur[1].action = "send_advert"
                             THEN "advert_sent" ELSE status
    /\ UNCHANGED <<connVars, loadVars, running, queue, sent,
                   bot_last_reply, now, bot_enabled, next_id, rx_log, pending>>
    /\ UNCHANGED routeVars

\* Faulty variant: _process_commands handles one command and returns, so
\* the loop sleeps before it looks at the queue again
ResumeCommandThenSleep(outcome) ==
    /\ pc = "await_cmd"
    /\ cur # <<>> /\ cur[1].action # "refresh"
    /\ cur' = <<>>
    /\ IF outcome = "raise"
       THEN /\ pc' = "crashed"
            /\ UNCHANGED <<messages, status>>
       ELSE /\ pc' = "sleep"
            /\ messages' = messages \o LocalEcho(cur[1])
            /\ status' = IF cur[1].action = "send_advert"
                         THEN "advert_sent" ELSE status
    /\ UNCHANGED <<connVars, loadVars, running, queue, sent, cacheVars,
                   bot_last_reply, now, bot_enabled, next_id, rx_log, pending>>
    /\ UNCHANGED routeVars

\* The awaited send of a send_message, send_dm or send_advert command
\* returns (its result is not inspected) or raises; a raise leaves
\* _handle_command, _process_commands and _async_main
ResumeCommand(outcome) ==
    /\ pc = "await_cmd"
    /\ cur # <<>> /\ cur[1].action # "refresh"
    /\ cur' = <<>>
    /\ IF outcome = "raise"
       THEN /\ pc' = "crashed"
            /\ UNCHANGED <<messages, status>>
       ELSE /\ pc' = "drain"
            /\ messages' = messages \o LocalEcho(cur[1])
            /\ status' = IF cur[1].action = "send_advert"
                         THEN "advert_sent" ELSE status
    /\ UNCHANGED <<connVars, loadVars, running, queue, sent, cacheVars,
                   bot_last_reply, now, bot_enabled, next_id, rx_log, pending>>
    /\ UNCHANGED routeVars

\* A query of the _load_data run by a refresh command returns or raises
RefreshLoad(outcome) ==
    /\ pc = "await_cmd"
    /\ cur # <<>> /\ cur[1].action = "refresh"
    /\ IF outcome = "raise"
       THEN /\ pc' = "crashed"
            /\ cur' = <<>>
            /\ ld_pc' = "idle"
            /\ attempt' = 0
            /\ UNCHANGED <<loaded, status>>
       ELSE LET n == LoadNext(outcome)
            IN  /\ ld_pc' = n.ld_pc
                /\ attempt' = n.attempt
                /\ loaded' = n.loaded
                /\ status' = n.status
                /\ pc' = IF n.done THEN "drain" ELSE "await_cmd"
                /\ cur' = IF n.done THEN <<>> ELSE cur
    /\ UNCHANGED <<connVars, running, queue, sent, messages, cacheVars,
                   bot_last_reply, now, bot_enabled, next_id, rx_log, pending>>
    /\ UNCHANGED routeVars

(***************************************************************************)
(* Specifications.                                                         *)
(***************************************************************************)
\* No route was asked for and no path formatted
RouteIdle ==
    /\ route_msg = <<>> /\ route_data = <<>>
    /\ route_result = <<>> /\ path_str = <<>>

\* The state the constructor leaves (BLEWorker.__init__), with the bot
\* checkbox unticked and nothing on the air
InitConstructed ==
    /\ pc = "connect" /\ conn_pc = "start"
    /\ mc = FALSE /\ subscribed = FALSE /\ connected = FALSE
    /\ status = "" /\ running = TRUE
    /\ queue = <<>> /\ cur = <<>> /\ sent = <<>> /\ messages = <<>>
    /\ seen_hashes = {} /\ seen_hashes_order = <<>>
    /\ seen_content = {} /\ seen_content_order = <<>>
    /\ bot_last_reply = 0 /\ now = StartTime
    /\ next_id = 0 /\ rx_log = 0
    /\ ld_pc = "idle" /\ attempt = 0 /\ ch_i = 1
    /\ chan_keys = [i \in {0, 1, 2, 3} |-> "none"]
    /\ loaded = [appstart |-> 0, devquery |-> 0, contacts |-> 0]
    /\ bot_enabled = FALSE
    /\ pending = {}
    /\ RouteIdle

\* The state a successful _connect leaves when nothing was received or
\* queued meanwhile: the worker is at the head of its loop, the bot
\* checkbox is ticked, and the two notifications (RX_LOG_DATA and
\* CHANNEL_MSG_RECV) of each transmission in txs are still to be delivered
WorkerReady(txs) ==
    /\ pc = "head" /\ conn_pc = "ready"
    /\ mc = TRUE /\ subscribed = TRUE /\ connected = TRUE
    /\ status = "connected" /\ running = TRUE
    /\ queue = <<>> /\ cur = <<>> /\ sent = <<>> /\ messages = <<>>
    /\ seen_hashes = {} /\ seen_hashes_order = <<>>
    /\ seen_content = {} /\ seen_content_order = <<>>
    /\ bot_last_reply = 0 /\ now = StartTime
    /\ next_id = 0 /\ rx_log = 0
    /\ ld_pc = "idle" /\ attempt = 0 /\ ch_i = Len(CHANNELS_CONFIG)
    /\ chan_keys = [i \in {0, 1, 2, 3} |-> "device"]
    /\ loaded = [appstart |-> 1, devquery |-> 1, contacts |-> 1]
    /\ bot_enabled = TRUE
    /\ pending = {[kind |-> k, tx |-> i] : k \in {"rx", "chan"}, i \in txs}

\* ... and no route was asked for
Ready(txs) == WorkerReady(txs) /\ RouteIdle

InitReady == Ready(TxIds)

\* The worker's loop while Ready; `outcomes` is what an awaited send may do
WorkerLoop(outcomes) ==
    \/ LoopHead
    \/ Drain
    \/ Wake
    \/ \E o \in outcomes : ResumeCommand(o)

\* The worker's loop while no command is queued: the drain finds the queue
\* empty and the worker sleeps
IdleLoop ==
    \/ LoopHead
    \/ Drain
    \/ Wake

\* A send answers, or answers with EventType.ERROR
SendOutcomes == {"ok", "error"}

\* The transport delivers the RX_LOG_DATA event of transmission i, whose
\* raw frame decodes
DeliverRx(i) ==
    /\ [kind |-> "rx", tx |-> i] \in pending
    /\ pending' = pending \ {[kind |-> "rx", tx |-> i]}
    /\ OnRxLog(RxEvent(i, "ok"))

\* What the decoder may fail to make of a raw frame: the event carries no
\* payload, decode returns None, the packet is of another type, or it is a
\* GroupText that no known channel key decrypts
DecodeFailures == {"nopayload", "none", "othertype", "encrypted"}

\* The transport delivers the RX_LOG_DATA event of transmission i, whose
\* raw frame does not yield a message
DeliverRxUndecoded(i, outcome) ==
    /\ [kind |-> "rx", tx |-> i] \in pending
    /\ pending' = pending \ {[kind |-> "rx", tx |-> i]}
    /\ OnRxLog(RxEvent(i, outcome))

\* The same raw frame is delivered once more (heard again over another path)
RepeatRx(i) ==
    /\ [kind |-> "rx", tx |-> i] \notin pending
    /\ UNCHANGED pending
    /\ OnRxLog(RxEvent(i, "ok"))

\* The transport delivers the CHANNEL_MSG_RECV event of transmission i,
\* with or without a message_hash
DeliverChan(i, with_hash) ==
    /\ [kind |-> "chan", tx |-> i] \in pending
    /\ pending' = pending \ {[kind |-> "chan", tx |-> i]}
    /\ OnChannelMsg(ChannelEvent(i, with_hash))

\* Reconciliation while Ready, within one second: every notification is
\* delivered once, in any order
Next ==
    \/ \E i \in TxIds : DeliverRx(i)
    \/ \E i \in TxIds, h \in BOOLEAN : DeliverChan(i, h)
    \/ WorkerLoop(SendOutcomes)

Spec == InitReady /\ [][Next]_vars

\* The bot while Ready, as time passes and raw frames are heard repeatedly
BotTxIds == {1, 4}
InitBot == Ready(BotTxIds)
NextBot ==
    \/ \E i \in BotTxIds : Len(messages) < MaxEventMessages /\ DeliverRx(i)
    \/ \E i \in BotTxIds : Len(messages) < MaxEventMessages /\ RepeatRx(i)
    \/ \E i \in BotTxIds :
          Len(messages) < MaxEventMessages /\ DeliverChan(i, FALSE)
    \/ WorkerLoop(SendOutcomes)
    \/ Tick

SpecBot == InitBot /\ [][NextBot]_vars

\* The command queue while Ready: the GUI and the bot both enqueue
NextQueue ==
    \/ DeliverRx(1)
    \/ \E c \in GuiCommands : PutCommand(c)
    \/ WorkerLoop(SendOutcomes)

SpecQueue == InitReady /\ [][NextQueue]_vars

\* The worker's life from construction: connecting, loading, the loop, the
\* GUI's commands and its stop request
LifeCommands ==
    {c \in GuiCommands : c.action = "send_message" /\ c.text # <<>>}
    \cup {RefreshCommand}
NextLife ==
    \/ ConnectStart
    \/ \E o \in {"ok", "raise"} : CreateBle(o)
    \/ Subscribe
    \/ \E o \in QueryOutcomes : ConnectLoad(o)
    \/ \E o \in KeyOutcomes : ChannelKey(o)
    \/ \E o \in {"ok", "raise"} : AutoFetch(o)
    \/ \E c \in LifeCommands : next_id < MaxLifeCommands /\ PutCommand(c)
    \/ WorkerLoop(QueryOutcomes)
    \/ \E o \in QueryOutcomes : RefreshLoad(o)
    \/ Stop

SpecLife == InitConstructed /\ [][NextLife]_vars

\* The loop while Ready, with the GUI's commands and its stop request
NextStop ==
    \/ \E c \in LifeCommands : next_id < MaxLifeCommands /\ PutCommand(c)
    \/ WorkerLoop(QueryOutcomes)
    \/ \E o \in QueryOutcomes : RefreshLoad(o)
    \/ Stop

\* The event loop resumes the worker's coroutine whenever what it awaits is
\* there: asyncio.sleep(0.1) ends, and an awaited device call returns or
\* raises
WorkerFairness ==
    /\ WF_vars(LoopHead)
    /\ WF_vars(Drain)
    /\ WF_vars(Wake)
    /\ WF_vars(\E o \in QueryOutcomes : ResumeCommand(o))
    /\ WF_vars(\E o \in QueryOutcomes : RefreshLoad(o))

SpecStop == Ready({}) /\ [][NextStop]_vars /\ WorkerFairness

\* Every command of _handle_command while Ready, with a transmission that
\* fills the caches and makes the bot reply
NextCommands ==
    \/ DeliverRx(1)
    \/ \E c \in GuiCommands \cup {RefreshCommand} : PutCommand(c)
    \/ WorkerLoop(SendOutcomes)
    \/ \E o \in SendOutcomes : RefreshLoad(o)

SpecCommands == Ready({1}) /\ [][NextCommands]_vars

\* Reconciliation of two transmissions on one channel whose names and texts
\* hold the ':' of the content key: "a:b" saying "c", and "a" saying "b:c"
KeyTxIds == {5, 6}
NextKeys ==
    \/ \E i \in KeyTxIds : DeliverRx(i)
    \/ \E i \in KeyTxIds, h \in BOOLEAN : DeliverChan(i, h)
    \/ IdleLoop

SpecKeys == Ready(KeyTxIds) /\ [][NextKeys]_vars

\* Reconciliation of two transmissions in which the same sender says the
\* same text on the same channel ("al" sends "ping" twice)
RepeatTxIds == {3, 7}
NextRepeat ==
    \/ \E i \in RepeatTxIds : DeliverRx(i)
    \/ \E i \in RepeatTxIds, o \in DecodeFailures : DeliverRxUndecoded(i, o)
    \/ \E i \in RepeatTxIds, h \in BOOLEAN : DeliverChan(i, h)
    \/ IdleLoop

SpecRepeat == Ready(RepeatTxIds) /\ [][NextRepeat]_vars

\* CONTACT_MSG_RECV events: a direct message from a contact, and one from a
\* key no contact has
ContactEvents == {
    [pubkey_prefix |-> <<"8","d","4","1">>, text |-> <<"p","i","n","g">>,
     path_len |-> 1, SNR |-> <<40>>],
    [pubkey_prefix |-> <<"f","f","0","0">>, text |-> <<"h","i">>,
     path_len |-> 0, SNR |-> <<>>] }

\* The transport delivers a CONTACT_MSG_RECV event
DeliverContact(ev) ==
    /\ UNCHANGED pending
    /\ OnContactMsg(ev)

\* The command queue while Ready, filled by the GUI and by the bot at any
\* moment, with the GUI's stop request; a send returns a result
NextDrain ==
    \/ DeliverRx(1)
    \/ \E c \in GuiCommands : PutCommand(c)
    \/ WorkerLoop(SendOutcomes)
    \/ Stop

\* The event loop resumes the worker's coroutine: asyncio.sleep(0.1) ends
\* and an awaited send returns its result
DrainFairness ==
    /\ WF_vars(LoopHead)
    /\ WF_vars(Drain)
    /\ WF_vars(Wake)
    /\ WF_vars(\E o \in SendOutcomes : ResumeCommand(o))

SpecDrain == Ready({1}) /\ [][NextDrain]_vars /\ DrainFairness

\* CHANNEL_MSG_RECV events as the firmware may word them: a body that holds
\* the separator again, a name with blanks around it, a text without any
\* separator, and an event without channel_idx
RawChannelEvents == {
    [text |-> <<"a","l",":"," ","a",":"," ","b">>, channel_idx |-> <<1>>,
     path_len |-> 1, message_hash |-> "", SNR |-> <<>>],
    [text |-> <<" ","a","l"," ",":"," ","h","i">>, channel_idx |-> <<0>>,
     path_len |-> 0, message_hash |-> "", SNR |-> <<>>],
    [text |-> <<"p","i","n","g",":">>, channel_idx |-> <<1>>,
     path_len |-> 2, message_hash |-> "h9", SNR |-> <<40>>],
    [text |-> <<"a","l",":"," ","p","i","n","g">>, channel_idx |-> <<>>,
     path_len |-> 0, message_hash |-> "", SNR |-> <<>>] }

\* The transport delivers a CHANNEL_MSG_RECV event for which no raw frame
\* was heard
DeliverRawChan(ev) ==
    /\ UNCHANGED pending
    /\ OnChannelMsg(ev)

\* The two handlers under every kind of event: raw frames that decode and
\* that do not; channel messages with and without a message_hash, and
\* however worded
EventTxIds == {3, 4}
InitEvents == Ready(EventTxIds)
NextEvents ==
    \/ \E i \in EventTxIds : Len(messages) < MaxEventMessages /\ DeliverRx(i)
    \/ \E i \in EventTxIds, o \in DecodeFailures : DeliverRxUndecoded(i, o)
    \/ \E i \in EventTxIds, h \in BOOLEAN :
          Len(messages) < MaxEventMessages /\ DeliverChan(i, h)
    \/ \E ev \in RawChannelEvents :
          Len(messages) < MaxEventMessages /\ DeliverRawChan(ev)
    \/ WorkerLoop(SendOutcomes)

SpecEvents == InitEvents /\ [][NextEvents]_vars

\* The fallback and the direct-message handler at work while a raw frame is
\* decoded and the bot answers
FallbackTxIds == {3}
NextFallback ==
    \/ \E i \in FallbackTxIds : Len(messages) < MaxEventMessages /\ DeliverRx(i)
    \/ \E i \in FallbackTxIds, h \in BOOLEAN :
          Len(messages) < MaxEventMessages /\ DeliverChan(i, h)
    \/ \E ev \in RawChannelEvents :
          Len(messages) < MaxEventMessages /\ DeliverRawChan(ev)
    \/ \E ev \in ContactEvents :
          Len(messages) < MaxEventMessages /\ DeliverContact(ev)
    \/ WorkerLoop(SendOutcomes)

SpecFallback == Ready(FallbackTxIds) /\ [][NextFallback]_vars

\* The name of the own node, under which the mesh repeats what it sent
NodeName == <<"p","e">>

\* the message_hash of the frame that echoes the k-th send
EchoHash(k) == CASE k = 1 -> "e1" [] k = 2 -> "e2" [] OTHER -> "e3"

\* The radio echo of the bot reply that was the k-th send comes in as a raw
\* frame that decodes: own node name, the reply text, the bot's channel
EchoRx(k) ==
    /\ k \in 1..Len(sent) /\ sent[k].bot /\ sent[k].call = "send_chan_msg"
    /\ UNCHANGED pending
    /\ OnRxLog([snr |-> <<>>, path_len |-> 0, has_payload |-> TRUE,
                decoded |-> <<[payload_type |-> "GroupText", is_decrypted |-> TRUE,
                               message_hash |-> EchoHash(k), sender |-> NodeName,
                               text |-> sent[k].text, channel_idx |-> BOT_CHANNEL,
                               path_length |-> 0, path_hashes |-> <<>>]>>])

\* ... and as a channel message "name: reply", with or without message_hash
EchoChan(k, with_hash) ==
    /\ k \in 1..Len(sent) /\ sent[k].bot /\ sent[k].call = "send_chan_msg"
    /\ UNCHANGED pending
    /\ OnChannelMsg([text |-> NodeName \o Separator \o sent[k].text,
                     channel_idx |-> <<BOT_CHANNEL>>, path_len |-> 0,
                     message_hash |-> IF with_hash THEN EchoHash(k) ELSE "",
                     SNR |-> <<>>])

\* The bot and its own echo: "al" asks for help on the bot's channel, the
\* reply is sent, and its echo comes back at any time, also after the
\* cooldown
EchoTxIds == {8}
NextEcho ==
    \/ \E i \in EchoTxIds : DeliverRx(i)
    \/ \E i \in EchoTxIds, h \in BOOLEAN : DeliverChan(i, h)
    \/ \E k \in 1..Len(sent) : EchoRx(k)
    \/ \E k \in 1..Len(sent), h \in BOOLEAN : EchoChan(k, h)
    \/ WorkerLoop(SendOutcomes)
    \/ Tick

SpecEcho == Ready(EchoTxIds) /\ [][NextEcho]_vars

\* The cache window: transmissions heard over a repeater (their raw frames
\* carry a hop), more of them than a cache holds, the last with the
\* channel, sender and text of the first; the channel message of each,
\* with its message_hash, comes at any time: before its raw frame, right
\* after it, or late
WindowTxIds == {3, 9, 10, 11}
NextWindow ==
    \/ \E i \in WindowTxIds : DeliverRx(i)
    \/ \E i \in WindowTxIds : DeliverChan(i, TRUE)
    \/ IdleLoop

SpecWindow == Ready(WindowTxIds) /\ [][NextWindow]_vars

\* a CHANNEL_MSG_RECV event "name: body" on a channel (<<>>: no channel_idx)
GuardEvent(name, body, channel) ==
    [text |-> name \o Separator \o body, channel_idx |-> channel,
     path_len |-> 0, message_hash |-> "", SNR |-> <<>>]

\* One channel message for the pass and for each rejection of the guard
\* chain of _bot_check_and_queue: a keyword on the trigger channel; the
\* same on another channel and without channel_idx; from 'Me'; a text that
\* starts with BOT_NAME; from a name ending in "Bot"; a text without keyword
GuardCases == {
    [name |-> <<"a","l">>, body |-> <<"p","i","n","g">>, channel |-> <<BOT_CHANNEL>>],
    [name |-> <<"a","l">>, body |-> <<"p","i","n","g">>, channel |-> <<0>>],
    [name |-> <<"a","l">>, body |-> <<"p","i","n","g">>, channel |-> <<>>],
    [name |-> <<"M","e">>, body |-> <<"p","i","n","g">>, channel |-> <<BOT_CHANNEL>>],
    [name |-> <<"a","l">>, body |-> BOT_NAME \o <<":"," ","t","e","s","t">>,
     channel |-> <<BOT_CHANNEL>>],
    [name |-> <<"a","B","o","t">>, body |-> <<"p","i","n","g">>,
     channel |-> <<BOT_CHANNEL>>],
    [name |-> <<"a","l">>, body |-> <<"h","i">>, channel |-> <<BOT_CHANNEL>>] }

GuardEvents == {GuardEvent(c.name, c.body, c.channel) : c \in GuardCases}

\* the channel messages of a run of the guard chain
MaxGuardMessages == 2

\* The guard chain of the bot: channel messages of every kind arrive while
\* time passes and the GUI switches the bot on and off
InitGuards == Ready({})
NextGuards ==
    \/ \E ev \in GuardEvents :
          Len(messages) < MaxGuardMessages /\ DeliverRawChan(ev)
    \/ SetBotEnabled
    \/ Tick
    \/ WorkerLoop(SendOutcomes)

SpecGuards == InitGuards /\ [][NextGuards]_vars

(***************************************************************************)
(* Route reconstruction (route_builder.py).  The contacts dict of a        *)
(* snapshot is the sequence of its entries in dict order; an entry holds   *)
(* its key, pubkey.  None is <<>> and a value v that may be None is <<v>>. *)
(***************************************************************************)
\* the lesser of two integers (min)
Min(a, b) == IF a < b THEN a ELSE b

\* shared.get_contact_by_prefix(pubkey): the first contact whose public key
\* starts with the prefix, or None
GetContactByPrefix(contacts, pubkey) ==
    LET hits == SelectSeq(contacts, LAMBDA c : StartsWith(c.pubkey, pubkey))
    IN  IF hits = <<>> THEN <<>> ELSE <<Head(hits)>>

\* shared.get_contact_by_name(name) as build uses it: the first contact of
\* that name, or None
GetContactByNameIn(contacts, name) ==
    LET hits == SelectSeq(contacts, LAMBDA c : c.adv_name = name)
    IN  IF hits = <<>> THEN <<>> ELSE <<Head(hits)>>

\* _find_contact_by_pubkey_hash(hash_hex, contacts): the first contact whose
\* pubkey.lower() starts with hash_hex.lower(), or None
FindContactByPubkeyHash(hash_hex, contacts) ==
    LET hits == SelectSeq(contacts,
                    LAMBDA c : StartsWith(Lower(c.pubkey), Lower(hash_hex)))
    IN  IF hits = <<>> THEN <<>> ELSE <<Head(hits)>>

\* the hop node _resolve_hashes appends for hop_hash: the contact's data, or
\* the placeholder '-' at (0, 0)
HopNode(hop_hash, contacts) ==
    LET hop_contact == FindContactByPubkeyHash(hop_hash, contacts)
    IN  IF hop_contact # <<>>
        THEN [name |-> hop_contact[1].adv_name, lat |-> hop_contact[1].adv_lat,
              lon |-> hop_contact[1].adv_lon, type |-> hop_contact[1].type,
              pubkey |-> hop_hash]
        ELSE [name |-> <<"-">>, lat |-> 0, lon |-> 0, type |-> 0,
              pubkey |-> hop_hash]

\* Faulty variant: a hop that matches no contact is left out
ResolveHashesKnownOnly(hashes, contacts) ==
    LET usable == SelectSeq(hashes,
                      LAMBDA h : /\ h # <<>> /\ Len(h) >= 2
                                 /\ FindContactByPubkeyHash(h, contacts) # <<>>)
    IN  [i \in 1..Len(usable) |-> HopNode(usable[i], contacts)]

\* _resolve_hashes(hashes, contacts)
ResolveHashes(hashes, contacts) ==
    LET usable == SelectSeq(hashes, LAMBDA h : h # <<>> /\ Len(h) >= 2)
    IN  [i \in 1..Len(usable) |-> HopNode(usable[i], contacts)]

\* Faulty variant: the whole route string is parsed, whatever the declared count
ParseOutPathWhole(out_path, out_path_len, contacts) ==
    LET groups == [n \in 1..((Len(out_path) + 1) \div 2) |->
                      SubSeq(out_path, 2 * n - 1, Min(2 * n, Len(out_path)))]
    IN  ResolveHashes(SelectSeq(groups, LAMBDA h : Len(h) = 2), contacts)

\* _parse_out_path(out_path, out_path_len, contacts): the groups
\* out_path[i:i+2] for i in range(0, min(len(out_path), out_path_len*2), 2)
\* that are 2 characters long, resolved
ParseOutPath(out_path, out_path_len, contacts) ==
    LET limit == Min(Len(out_path), out_path_len * 2)
        groups == [n \in 1..((limit + 1) \div 2) |->
                      SubSeq(out_path, 2 * n - 1, Min(2 * n, Len(out_path)))]
    IN  ResolveHashes(SelectSeq(groups, LAMBDA h : Len(h) = 2), contacts)

\* Faulty variant: a stored route of the sender's contact is preferred to
\* the hashes of the message
ResolvePathStoredFirst(rx_hashes, contact, contacts) ==
    IF contact # <<>> /\ contact[1].out_path # <<>> /\ contact[1].out_path_len > 0
    THEN [path_nodes |-> ParseOutPath(contact[1].out_path,
                                      contact[1].out_path_len, contacts),
          path_source |-> "contact_out_path"]
    ELSE IF rx_hashes # <<>>
    THEN [path_nodes |-> ResolveHashes(rx_hashes, contacts),
          path_source |-> "rx_log"]
    ELSE [path_nodes |-> <<>>, path_source |-> "none"]

\* "Resolve path nodes (priority order)" of build: path_hashes of the
\* message first, else the out_path of the sender's contact, else nothing
ResolvePath(rx_hashes, contact, contacts) ==
    IF rx_hashes # <<>>
    THEN [path_nodes |-> ResolveHashes(rx_hashes, contacts),
          path_source |-> "rx_log"]
    ELSE IF contact # <<>> /\ contact[1].out_path # <<>>
            /\ contact[1].out_path_len # 0 /\ contact[1].out_path_len > 0
    THEN [path_nodes |-> ParseOutPath(contact[1].out_path,
                                      contact[1].out_path_len, contacts),
          path_source |-> "contact_out_path"]
    ELSE [path_nodes |-> <<>>, path_source |-> "none"]

\* "Look up sender in contacts" of build: by sender_pubkey when the message
\* has one, else by the sender's name; None or the contact
SenderContact(msg, data) ==
    IF msg.sender_pubkey # <<>>
    THEN GetContactByPrefix(data.contacts, msg.sender_pubkey)
    ELSE IF msg.sender # <<>>
    THEN GetContactByNameIn(data.contacts, msg.sender)
    ELSE <<>>

\* RouteBuilder.build(msg, data)
RouteBuild(msg, data) ==
    LET contact == SenderContact(msg, data)
        pubkey == IF msg.sender_pubkey # <<>> \/ contact = <<>>
                  THEN msg.sender_pubkey ELSE contact[1].pubkey
        sender == IF contact = <<>> THEN <<>>
                  ELSE <<[name |-> contact[1].adv_name,
                          lat |-> contact[1].adv_lat,
                          lon |-> contact[1].adv_lon,
                          type |-> contact[1].type, pubkey |-> pubkey]>>
        self_node == [name |-> IF data.name # <<>> THEN data.name
                               ELSE <<"M","e">>,
                      lat |-> data.adv_lat, lon |-> data.adv_lon]
        path == ResolvePath(msg.path_hashes, contact, data.contacts)
        located(pt) == pt.lat # 0 \/ pt.lon # 0
    IN  [sender |-> sender,
         self_node |-> self_node,
         path_nodes |-> path.path_nodes,
         snr |-> msg.snr,
         msg_path_len |-> msg.path_len,
         has_locations |->
             \/ located(self_node)
             \/ sender # <<>> /\ located(sender[1])
             \/ \E i \in 1..Len(path.path_nodes) : located(path.path_nodes[i]),
         path_source |-> path.path_source]

\* the greatest hop count of a message and of a stored route
MaxPathLen == 3
MaxOutPathLen == 3

\* one-byte hop identifiers as the decoder lists them
RoutePathHashes == {
    <<>>,
    << <<"8","d">> >>,
    << <<"8","d">>, <<"a","8">> >>,
    << <<"A","8">>, <<"f","f">>, <<"8","d">> >>,
    << <<"f","f">>, <<"0","0">> >> }

\* stored routes: none, the two hops "8d","a8", the same with a third
\* group, one group only, and a string with a dangling half group
RouteOutPaths == {
    <<>>,
    <<"8","d","a","8">>,
    <<"8","d","a","8","f","f">>,
    <<"a","8">>,
    <<"8","d","a">> }

\* the messages a route is asked for: from the known sender (by key or by
\* name only) or from a stranger
RouteMsgs == {
    [sender |-> <<"a","l">>, sender_pubkey |-> pk, path_len |-> n,
     path_hashes |-> h, snr |-> <<75>>] :
        pk \in {<<>>, <<"c","3","a","0">>, <<"0","1">>},
        n \in 0..MaxPathLen, h \in RoutePathHashes }

\* the snapshots: the sender's contact with a stored route and declared hop
\* count (-1: no route known), and three repeaters, two of which share the
\* first byte 8d
RouteSnapshots == {
    [name |-> <<"m","e">>, adv_lat |-> 0, adv_lon |-> 0,
     contacts |-> <<
        [pubkey |-> <<"c","3","a","0","1","1">>, adv_name |-> <<"a","l">>,
         adv_lat |-> 0, adv_lon |-> 0, type |-> 1,
         out_path |-> op, out_path_len |-> n],
        [pubkey |-> <<"8","D","4","1","0","0">>, adv_name |-> <<"r","1">>,
         adv_lat |-> 52, adv_lon |-> 6, type |-> 2,
         out_path |-> <<>>, out_path_len |-> 0 - 1],
        [pubkey |-> <<"8","d","9","9","0","0">>, adv_name |-> <<"r","2">>,
         adv_lat |-> 0, adv_lon |-> 0, type |-> 2,
         out_path |-> <<>>, out_path_len |-> 0 - 1],
        [pubkey |-> <<"a","8","f","0","0","0">>, adv_name |-> <<"r","3">>,
         adv_lat |-> 0, adv_lon |-> 0, type |-> 2,
         out_path |-> <<>>, out_path_len |-> 0 - 1] >>] :
        op \in RouteOutPaths, n \in (0 - 1)..MaxOutPathLen }

\* The GUI asks for the route of a message: RouteBuilder.build(msg, data)
Build ==
    /\ route_msg # <<>> /\ route_result = <<>>
    /\ route_result' = <<RouteBuild(route_msg[1], route_data[1])>>
    /\ UNCHANGED <<pc, connVars, loadVars, status, running, queue, cur, sent,
                   messages, cacheVars, bot_last_reply, now, bot_enabled,
                   next_id, rx_log, pending, route_msg, route_data, path_str>>

\* The bot formats the path of the message: _format_path(path_len, path_hashes)
FormatMsgPath ==
    /\ route_msg # <<>> /\ path_str = <<>>
    /\ path_str' = <<FormatPath(route_msg[1].path_len, route_msg[1].path_hashes)>>
    /\ UNCHANGED <<pc, connVars, loadVars, status, running, queue, cur, sent,
                   messages, cacheVars, bot_last_reply, now, bot_enabled,
                   next_id, rx_log, pending, route_msg, route_data, route_result>>

\* Routes and path descriptors of every message against every snapshot
InitRoute ==
    /\ WorkerReady({})
    /\ route_msg \in {<<m>> : m \in RouteMsgs}
    /\ route_data \in {<<d>> : d \in RouteSnapshots}
    /\ route_result = <<>> /\ path_str = <<>>

NextRoute ==
    \/ Build
    \/ FormatMsgPath

SpecRoute == InitRoute /\ [][NextRoute]_vars

(***************************************************************************)
(* Properties.                                                             *)
(***************************************************************************)
RxNote(i) == [kind |-> "rx", tx |-> i]
ChanNote(i) == [kind |-> "chan", tx |-> i]

\* the published incoming messages that carry transmission i's channel,
\* sender and text
InMessages(i) ==
    {k \in 1..Len(messages) :
        /\ messages[k].direction = "in"
        /\ messages[k].channel = <<Transmissions[i].channel_idx>>
        /\ messages[k].sender = Transmissions[i].sender
        /\ messages[k].text = Transmissions[i].text}

InCount(i) == Cardinality(InMessages(i))

\* a step that publishes nothing and does not involve the bot
Suppressed ==
    /\ messages' = messages
    /\ queue' = queue
    /\ bot_last_reply' = bot_last_reply

\* C1: once both notifications of a transmission (its decodable raw frame
\* and its matching channel message) have been delivered, in either order,
\* exactly one incoming message is published for it.
C1_ExactlyOnePerTransmission ==
    \A i \in TxIds :
        (RxNote(i) \notin pending /\ ChanNote(i) \notin pending)
            => InCount(i) = 1

\* C2: however often the raw frame of a transmission is delivered, at most
\* one incoming message is published for it (here: while its channel
\* message is still undelivered, so every record stems from the raw frame).
C2_DuplicateRawFrameDropped ==
    \A i \in BotTxIds : ChanNote(i) \in pending => InCount(i) <= 1

\* C3: of a transmission's two notifications, where the channel message
\* carries no message_hash, the one processed second is suppressed,
\* whichever it is: the hashless channel message after the raw frame, and
\* the raw frame after the hashless channel message was published.
C3_SecondOfPairSuppressed ==
    [][\A i \in TxIds :
         /\ (DeliverChan(i, FALSE) /\ RxNote(i) \notin pending) => Suppressed
         /\ (DeliverRx(i) /\ \E k \in InMessages(i) : messages[k].message_hash = "")
                => Suppressed]_vars

\* the transmissions whose raw frame has been delivered
RxDelivered == {i \in TxIds : RxNote(i) \notin pending}

\* the last n entries of a sequence
LastN(q, n) == IF Len(q) <= n THEN q ELSE SubSeq(q, Len(q) - n + 1, Len(q))

\* what inserting key k does to a FIFO set of capacity SEEN_HASHES_MAX
FifoInsert(set, order, set2, order2, k) ==
    IF k \in set THEN set2 = set /\ order2 = order
    ELSE IF Len(order) < SEEN_HASHES_MAX
    THEN set2 = set \cup {k} /\ order2 = Append(order, k)
    ELSE /\ set2 = (set \ {Head(order)}) \cup {k}
         /\ order2 = Append(Tail(order), k)

\* C4: each dedup cache evicts first-in first-out.  While every published
\* record stems from a raw frame (each such frame inserted one new hash and
\* one new content key), the caches hold exactly the last SEEN_HASHES_MAX
\* keys inserted, in insertion order: after SEEN_HASHES_MAX + 1 distinct
\* keys the first one is gone and all others are present.  And every
\* delivery of a raw frame changes each cache as a FIFO insert does: the
\* key it evicts is the oldest one in the cache.
C4_FifoEviction ==
    /\ [](Len(messages) = Cardinality(RxDelivered) =>
            /\ seen_hashes_order =
                 LastN([k \in 1..Len(messages) |-> messages[k].message_hash],
                       SEEN_HASHES_MAX)
            /\ seen_content_order =
                 LastN([k \in 1..Len(messages) |->
                          ChannelStr(messages[k].channel) \o <<":">>
                          \o messages[k].sender \o <<":">> \o messages[k].text],
                       SEEN_HASHES_MAX)
            /\ seen_hashes = {seen_hashes_order[k] : k \in 1..Len(seen_hashes_order)}
            /\ seen_content = {seen_content_order[k] : k \in 1..Len(seen_content_order)})
    /\ [][\A i \in TxIds : DeliverRx(i) =>
            /\ FifoInsert(seen_hashes, seen_hashes_order, seen_hashes',
                          seen_hashes_order', Transmissions[i].message_hash)
            /\ FifoInsert(seen_content, seen_content_order, seen_content',
                          seen_content_order',
                          IntStr(Transmissions[i].channel_idx) \o <<":">>
                          \o Transmissions[i].sender \o <<":">>
                          \o Transmissions[i].text)]_vars

\* C4 witness: SEEN_HASHES_MAX + 1 raw frames with distinct hashes were
\* delivered and nothing else was published; the first hash was evicted.
C4_Witness ==
    /\ Cardinality(RxDelivered) = SEEN_HASHES_MAX + 1
    /\ Len(messages) = SEEN_HASHES_MAX + 1
    /\ messages[1].message_hash \notin seen_hashes
    /\ \A k \in 2..Len(messages) : messages[k].message_hash \in seen_hashes

\* C5: in every state each cache's membership set is the set of entries of
\* its order list, the order list has no duplicates, and it is no longer
\* than the capacity.
C5_CacheWellFormed ==
    /\ seen_hashes = {seen_hashes_order[k] : k \in 1..Len(seen_hashes_order)}
    /\ Cardinality(seen_hashes) = Len(seen_hashes_order)
    /\ Len(seen_hashes_order) <= SEEN_HASHES_MAX
    /\ seen_content = {seen_content_order[k] : k \in 1..Len(seen_content_order)}
    /\ Cardinality(seen_content) = Len(seen_content_order)
    /\ Len(seen_content_order) <= SEEN_HASHES_MAX

\* C5 witness: both caches are full and have evicted a key.
C5_Witness ==
    /\ Len(seen_hashes_order) = SEEN_HASHES_MAX
    /\ Len(seen_content_order) = SEEN_HASHES_MAX
    /\ \E i \in RxDelivered : Transmissions[i].message_hash \notin seen_hashes

\* the transmissions that pass every bot guard but the cooldown: on the
\* trigger channel, from a sender that is neither the bot nor another bot,
\* with a keyword in the text
QualifyingTx == {1}

\* a notification of transmission i is handled and publishes its message
Publishes(i) ==
    /\ DeliverRx(i) \/ RepeatRx(i) \/ DeliverChan(i, FALSE)
    /\ messages' # messages

\* the step enqueues one bot-tagged reply and stamps the cooldown
Replies ==
    /\ Len(queue') = Len(queue) + 1
    /\ queue'[Len(queue')].bot
    /\ SubSeq(queue', 1, Len(queue)) = queue
    /\ bot_last_reply' = now

\* C6: with the bot enabled, a qualifying message is answered if and only
\* if at least BOT_COOLDOWN_SECONDS have passed since the last reply, and
\* the cooldown stamp moves only with a reply: two qualifying messages
\* inside the window give one reply, one after the window gives another,
\* and two replies are never less than the cooldown apart.
C6_Cooldown ==
    [][/\ \A i \in QualifyingTx : Publishes(i) =>
             IF now - bot_last_reply >= BOT_COOLDOWN_SECONDS
             THEN Replies
             ELSE queue' = queue /\ bot_last_reply' = bot_last_reply
       /\ bot_last_reply' # bot_last_reply =>
             /\ Replies
             /\ bot_last_reply' - bot_last_reply >= BOT_COOLDOWN_SECONDS]_vars

\* C6 witness: three qualifying messages were published, the second within
\* the window of the first reply, the third once the cooldown had passed:
\* two replies.
C6_Witness ==
    /\ InCount(1) = 3
    /\ next_id = 2
    /\ bot_last_reply = StartTime + BOT_COOLDOWN_SECONDS

\* the spellings of "bot"
BotSpellings ==
    {<<a, b, c>> : a \in {"b", "B"}, b \in {"o", "O"}, c \in {"t", "T"}}

\* the sender name ends with "bot" in some letter case, trailing
\* whitespace aside
BotSuffixed(sender) == \E v \in BotSpellings : EndsWith(RStrip(sender), v)

\* C7: a notification whose sender name ends with "bot" in any letter case
\* enqueues nothing and leaves the cooldown stamp alone.
C7_OtherBotIgnored ==
    [][\A i \in BotTxIds :
         (BotSuffixed(Transmissions[i].sender)
          /\ (DeliverRx(i) \/ RepeatRx(i) \/ DeliverChan(i, FALSE)))
            => /\ queue' = queue
               /\ next_id' = next_id
               /\ bot_last_reply' = bot_last_reply]_vars

\* C7 witness: a message from "xBOT " with a keyword was published on the
\* trigger channel with the bot enabled and the cooldown elapsed, and no
\* reply was enqueued.
C7_Witness ==
    /\ InCount(4) >= 1
    /\ bot_enabled
    /\ now - bot_last_reply >= BOT_COOLDOWN_SECONDS
    /\ next_id = 0

\* the local echoes of channel messages: records 'Me', direction out
ChannelEchoes ==
    {k \in 1..Len(messages) :
        /\ messages[k].direction = "out"
        /\ messages[k].sender = <<"M","e">>
        /\ messages[k].channel # <<>>}

\* the channel sends issued for commands with the given bot tag whose
\* handler has finished
FinishedChannelSends(bot) ==
    {k \in 1..Len(sent) :
        /\ sent[k].call = "send_chan_msg"
        /\ sent[k].bot = bot
        /\ (cur = <<>> \/ cur[1].id # sent[k].id)}

\* C8: a callback sends nothing: what it adds to the queue, if anything, is
\* one send_message command for the trigger channel tagged as the bot's.
\* A send is issued only by the drain of the command queue, for a command
\* that was queued.  When the handler of a channel send finishes, a
\* bot-tagged command publishes nothing and any other publishes one local
\* echo ('Me', out) with the command's text; so the local echoes are as
\* many as the finished channel sends that are not the bot's.
C8_ReplyOnlyEnqueued ==
    /\ [](Cardinality(ChannelEchoes) = Cardinality(FinishedChannelSends(FALSE)))
    /\ [][/\ DeliverRx(1) =>
               /\ sent' = sent
               /\ \/ queue' = queue
                  \/ /\ Len(queue') = Len(queue) + 1
                     /\ SubSeq(queue', 1, Len(queue)) = queue
                     /\ queue'[Len(queue')].bot
                     /\ queue'[Len(queue')].action = "send_message"
                     /\ queue'[Len(queue')].channel = BOT_CHANNEL
          /\ sent' # sent =>
               /\ pc = "drain"
               /\ Len(sent') = Len(sent) + 1
               /\ SubSeq(sent', 1, Len(sent)) = sent
               /\ \E k \in 1..Len(queue) :
                     /\ queue[k].id = sent'[Len(sent')].id
                     /\ queue[k].bot = sent'[Len(sent')].bot
                     /\ queue' # queue
          /\ (cur # <<>> /\ cur' = <<>> /\ cur[1].action = "send_message") =>
               IF cur[1].bot THEN messages' = messages
               ELSE /\ Len(messages') = Len(messages) + 1
                    /\ messages'[Len(messages')].direction = "out"
                    /\ messages'[Len(messages')].text = cur[1].text]_vars

\* C8 witness: a bot reply and a GUI message have both been sent and their
\* handlers have finished; one local echo exists.
C8_Witness ==
    /\ cur = <<>>
    /\ Cardinality(FinishedChannelSends(TRUE)) = 1
    /\ Cardinality(FinishedChannelSends(FALSE)) = 1
    /\ Cardinality(ChannelEchoes) = 1

\* the number of commands taken from the queue so far
Dequeued == next_id - Len(queue)

\* C9: commands are tagged 1, 2, ... as they are enqueued.  The queue holds
\* the commands not yet taken, in that order; the sends issued are in that
\* order too; a command is taken only when no handler is in flight, one at
\* a time from the front, and the command in flight is the one taken last.
C9_StrictEnqueueOrder ==
    /\ [](/\ \A k \in 1..Len(queue) : queue[k].id = Dequeued + k
          /\ \A k \in 1..Len(sent) :
                /\ sent[k].id <= Dequeued
                /\ k > 1 => sent[k - 1].id < sent[k].id
          /\ cur # <<>> =>
                /\ pc = "await_cmd"
                /\ cur[1].id = Dequeued
                /\ sent[Len(sent)].id = Dequeued)
    /\ [][(next_id' - Len(queue')) # Dequeued =>
            /\ cur = <<>>
            /\ queue # <<>>
            /\ queue' = Tail(queue)
            /\ next_id' = next_id
            /\ cur' # <<>> => cur'[1] = Head(queue)]_vars

\* C9 witness: a bot reply was enqueued between two GUI commands; all three
\* were taken and their sends issued in that order.
C9_Witness ==
    /\ Dequeued = 3
    /\ Len(sent) = 3
    /\ ~sent[1].bot /\ sent[2].bot /\ ~sent[3].bot

\* C10: once _connect has failed -- create_ble, a query of _load_data or
\* start_auto_message_fetching raised -- the connected flag is unset, the
\* worker is not in its command loop and no command was executed.
C10_FailureHalts ==
    conn_pc = "failed" =>
        /\ ~connected
        /\ pc \notin {"drain", "await_cmd", "sleep"}
        /\ sent = <<>>

\* the raw-frame notifications delivered so far
RxNotified == {i \in EventTxIds : RxNote(i) \notin pending}

\* C11: every raw-frame notification adds exactly one raw-log record,
\* whatever the decoder makes of the frame, so the records are as many as
\* the notifications; and a frame without payload, that the decoder
\* returns nothing for, of another payload type, or not decrypted,
\* publishes no message, leaves both caches alone and does not reach the
\* bot.
C11_RawLogAlwaysMessageOnlyDecoded ==
    /\ [](rx_log = Cardinality(RxNotified))
    /\ [][\A i \in EventTxIds :
            /\ (DeliverRx(i) \/ \E o \in DecodeFailures : DeliverRxUndecoded(i, o))
                  => rx_log' = rx_log + 1
            /\ (\E o \in DecodeFailures : DeliverRxUndecoded(i, o))
                  => /\ Suppressed
                     /\ next_id' = next_id
                     /\ UNCHANGED cacheVars]_vars

\* C11 witness: two raw frames were delivered that gave no message: two
\* raw-log records, nothing published, both caches empty.
C11_Witness ==
    /\ Cardinality(RxNotified) = 2
    /\ rx_log = 2
    /\ messages = <<>>
    /\ seen_hashes = {} /\ seen_content = {}

\* C15: a channel message that carries a message_hash already in the hash
\* cache is dropped: nothing is published, nothing is enqueued, the
\* cooldown stamp and both caches stay as they are.
C15_SeenHashFallbackDropped ==
    [][\A i \in EventTxIds :
         (DeliverChan(i, TRUE) /\ Transmissions[i].message_hash \in seen_hashes)
            => /\ Suppressed
               /\ next_id' = next_id
               /\ UNCHANGED cacheVars]_vars

\* C15 witness: the raw frame of the transmission from "xBOT " was
\* published, and its channel message -- which names the sender "xBOT", so
\* that only its message_hash ties it to the frame -- was delivered and
\* left no record.
C15_Witness ==
    /\ RxNote(4) \notin pending /\ ChanNote(4) \notin pending
    /\ Transmissions[4].message_hash \in seen_hashes
    /\ Len(messages) = 1
    /\ messages[1].message_hash = Transmissions[4].message_hash
    /\ messages[1].sender = Transmissions[4].sender

\* the position of the first ": " in s, or 0 when there is none
FirstSeparatorAt(s) ==
    LET at == {k \in 1..(Len(s) - 1) : s[k] = ":" /\ s[k + 1] = " "}
    IN  IF at = {} THEN 0 ELSE CHOOSE k \in at : \A j \in at : k <= j

\* t is x without the blanks at its two ends
IsTrimOf(t, x) ==
    \E a \in 1..(Len(x) + 1), b \in 0..Len(x) :
        /\ t = SubSeq(x, a, b)
        /\ \A j \in 1..Len(x) : (j < a \/ j > b) => x[j] = " "
        /\ t # <<>> => (t[1] # " " /\ t[Len(t)] # " ")

\* the record a channel message with raw text s must give: the sender is
\* what precedes the first ": ", trimmed, and the body all that follows it;
\* without a separator the sender is empty and the body is s
SplitAsSpecified(m, s) ==
    LET k == FirstSeparatorAt(s)
    IN  /\ m.direction = "in"
        /\ IF k = 0
           THEN m.sender = <<>> /\ m.text = s
           ELSE /\ IsTrimOf(m.sender, SubSeq(s, 1, k - 1))
                /\ m.text = SubSeq(s, k + 2, Len(s))

\* C17: whenever the fallback handler publishes, the record's sender and
\* text are the raw text split at its first ": " (sender trimmed, body
\* keeping any later ": "), or an empty sender and the whole text when
\* there is no separator; and a channel message that neither cache knows
\* is published, separator or not.
C17_FallbackSplit ==
    [][/\ \A ev \in RawChannelEvents :
            DeliverRawChan(ev) =>
                /\ Len(messages') = Len(messages) + 1
                /\ SplitAsSpecified(messages'[Len(messages')], ev.text)
       /\ \A i \in EventTxIds, h \in BOOLEAN :
            (DeliverChan(i, h) /\ messages' # messages) =>
                SplitAsSpecified(messages'[Len(messages')],
                                 ChannelEvent(i, h).text)]_vars

\* C17 witness: "ping:" (no separator) was published with an empty sender
\* and the whole text, "al: a: b" with sender "al" and body "a: b", and
\* " al : hi" with sender "al" and body "hi".
C17_Witness ==
    /\ \E k \in 1..Len(messages) :
          /\ messages[k].sender = <<>>
          /\ messages[k].text = <<"p","i","n","g",":">>
    /\ \E k \in 1..Len(messages) :
          /\ messages[k].sender = <<"a","l">>
          /\ messages[k].text = <<"a",":"," ","b">>
    /\ \E k \in 1..Len(messages) :
          /\ messages[k].sender = <<"a","l">>
          /\ messages[k].text = <<"h","i">>

\* the content key of transmission i as its string
TxContentKey(i) ==
    IntStr(Transmissions[i].channel_idx) \o <<":">>
    \o Transmissions[i].sender \o <<":">> \o Transmissions[i].text

\* C16: inserting a key that a cache already holds changes neither its
\* membership set nor its order list, so the key keeps the eviction
\* position of its first insertion and a repeated insert equals a single
\* one.  (The raw-frame handler inserts the frame's hash and content key
\* at every delivery.)
C16_ReinsertIsNoOp ==
    [][\A i \in BotTxIds :
         (DeliverRx(i) \/ RepeatRx(i)) =>
            /\ Transmissions[i].message_hash \in seen_hashes =>
                  /\ seen_hashes' = seen_hashes
                  /\ seen_hashes_order' = seen_hashes_order
            /\ TxContentKey(i) \in seen_content =>
                  /\ seen_content' = seen_content
                  /\ seen_content_order' = seen_content_order]_vars

\* C16 witness: the frames h1, h4 and h1 again were handled; h1 is still
\* the oldest entry of the hash cache, and its content key of the content
\* cache.
C16_Witness ==
    /\ Len(messages) = 3
    /\ messages[1].message_hash = "h1"
    /\ messages[2].message_hash = "h4"
    /\ messages[3].message_hash = "h1"
    /\ seen_hashes_order = <<"h1", "h4">>
    /\ seen_content_order = <<TxContentKey(1), TxContentKey(4)>>

\* the keywords the bot answers
Keywords == {<<"t","e","s","t">>, <<"p","i","n","g">>, <<"h","e","l","p">>}

\* a guard of the chain rejects the channel message of case c now
Rejected(c) ==
    \/ ~bot_enabled
    \/ c.channel # <<BOT_CHANNEL>>
    \/ c.name = <<"M","e">>
    \/ StartsWith(c.body, BOT_NAME)
    \/ BotSuffixed(c.name)
    \/ now - bot_last_reply < BOT_COOLDOWN_SECONDS
    \/ \A kw \in Keywords : ~Contains(Lower(c.body), kw)

\* C18: a message that any guard rejects -- bot disabled, wrong channel,
\* own message, sender ending in "bot", cooldown active, no keyword --
\* leaves the cooldown stamp and the command queue as they are; and the
\* stamp moves only in a step that enqueues a reply.
C18_StampOnlyOnReply ==
    [][/\ \A c \in GuardCases :
            (DeliverRawChan(GuardEvent(c.name, c.body, c.channel)) /\ Rejected(c))
               => /\ bot_last_reply' = bot_last_reply
                  /\ queue' = queue
                  /\ next_id' = next_id
       /\ bot_last_reply' # bot_last_reply => Replies]_vars

\* C18 witness: with the bot enabled, "al: ping" was answered and a second
\* "al: ping" inside the cooldown was published without a reply; the stamp
\* is still that of the first reply.
C18_Witness ==
    /\ Len(messages) = 2
    /\ \A k \in 1..2 : /\ messages[k].text = <<"p","i","n","g">>
                        /\ messages[k].sender = <<"a","l">>
                        /\ messages[k].channel = <<BOT_CHANNEL>>
    /\ bot_enabled
    /\ next_id = 1
    /\ bot_last_reply = StartTime
    /\ now - bot_last_reply < BOT_COOLDOWN_SECONDS

\* C19: a command is enqueued by the bot only in a step where the bot is
\* enabled and the message is on the trigger channel, and the command is
\* for the trigger channel; a message on another channel, or without
\* channel index, enqueues nothing and leaves the stamp alone.
C19_EnabledAndTriggerChannelOnly ==
    /\ [](\A k \in 1..Len(queue) : queue[k].bot => queue[k].channel = BOT_CHANNEL)
    /\ [][/\ Len(queue') > Len(queue) =>
               /\ bot_enabled
               /\ queue'[Len(queue')].bot
               /\ queue'[Len(queue')].channel = BOT_CHANNEL
               /\ messages'[Len(messages')].channel = <<BOT_CHANNEL>>
               /\ Len(messages') = Len(messages) + 1
          /\ \A c \in GuardCases :
               (DeliverRawChan(GuardEvent(c.name, c.body, c.channel))
                /\ c.channel # <<BOT_CHANNEL>>)
                  => /\ queue' = queue
                     /\ next_id' = next_id
                     /\ bot_last_reply' = bot_last_reply]_vars

\* C19 witness: with the bot enabled, a "ping" without channel index was
\* published and nothing was enqueued; then a "ping" on the trigger channel
\* was answered with a command for the trigger channel.
C19_Witness ==
    /\ Len(messages) = 2
    /\ messages[1].channel = <<>>
    /\ messages[1].text = <<"p","i","n","g">>
    /\ messages[2].channel = <<BOT_CHANNEL>>
    /\ bot_enabled
    /\ next_id = 1
    /\ Len(queue) = 1 /\ queue[1].bot /\ queue[1].channel = BOT_CHANNEL

\* the message, the snapshot and the result of the route that was built
RMsg == route_msg[1]
RData == route_data[1]
RResult == route_result[1]

\* the sender's contact in the snapshot (its first entry), which the message
\* names by key or by name unless it comes from a stranger
RSender == RData.contacts[1]
RSenderKnown == RMsg.sender_pubkey = <<>> \/ StartsWith(RSender.pubkey, RMsg.sender_pubkey)

\* the hop identifiers of the hops of the result, in order
HopIds(nodes) == [k \in 1..Len(nodes) |-> nodes[k].pubkey]

\* the first n 2-character groups of a route string, as far as it reaches
Groups(route, n) ==
    [k \in 1..Min(n, Len(route) \div 2) |-> <<route[2 * k - 1], route[2 * k]>>]

\* C12: the evidence of a route is chosen by priority.  Hop identifiers on
\* the message are used, with path_source rx_log, whatever route the
\* sender's contact stores; without them, a known sender's non-empty
\* stored route with a declared hop count above 0 is used, with path_source
\* contact_out_path; otherwise path_source is none and there are no hops.
\* The hop count of the message is kept in every case.
C12_RoutePriority ==
    route_result # <<>> =>
        /\ RResult.msg_path_len = RMsg.path_len
        /\ IF RMsg.path_hashes # <<>>
           THEN /\ RResult.path_source = "rx_log"
                /\ HopIds(RResult.path_nodes) = RMsg.path_hashes
           ELSE IF RSenderKnown /\ RSender.out_path # <<>> /\ RSender.out_path_len > 0
           THEN /\ RResult.path_source = "contact_out_path"
                /\ HopIds(RResult.path_nodes) =
                      Groups(RSender.out_path, RSender.out_path_len)
           ELSE /\ RResult.path_source = "none"
                /\ RResult.path_nodes = <<>>

\* C12 witness: the message carries the hops "8d","a8" and its sender's
\* contact stores the route "a8" with one hop; the route is that of the
\* message.
C12_Witness ==
    /\ route_result # <<>>
    /\ RMsg.path_hashes = << <<"8","d">>, <<"a","8">> >>
    /\ RSenderKnown
    /\ RSender.out_path = <<"a","8">> /\ RSender.out_path_len = 1
    /\ RResult.path_source = "rx_log"
    /\ HopIds(RResult.path_nodes) = << <<"8","d">>, <<"a","8">> >>

\* C13: a route taken from the contact has min(declared hop count,
\* floor(len(route) / 2)) hops, whose identifiers are the successive
\* 2-character groups of the route string: hex beyond the declared count
\* is ignored, and a shorter string gives fewer hops.
C13_DeclaredGroupsOnly ==
    (route_result # <<>> /\ RResult.path_source = "contact_out_path") =>
        /\ Len(RResult.path_nodes) =
              Min(RSender.out_path_len, Len(RSender.out_path) \div 2)
        /\ \A k \in 1..Len(RResult.path_nodes) :
              RResult.path_nodes[k].pubkey =
                  SubSeq(RSender.out_path, 2 * k - 1, 2 * k)

\* C13 witness: out_path "8da8" with out_path_len 2 and no hops on the
\* message gave exactly the hops "8d","a8".
C13_Witness ==
    /\ route_result # <<>>
    /\ RMsg.path_hashes = <<>>
    /\ RSender.out_path = <<"8","d","a","8">> /\ RSender.out_path_len = 2
    /\ RResult.path_source = "contact_out_path"
    /\ HopIds(RResult.path_nodes) = << <<"8","d">>, <<"a","8">> >>

\* a hex digit in upper case
UpHex(c) ==
    CASE c = "a" -> "A" [] c = "b" -> "B" [] c = "c" -> "C"
      [] c = "d" -> "D" [] c = "e" -> "E" [] c = "f" -> "F" [] OTHER -> c

\* C14: the path descriptor is "path(0)" for hop count 0; for a hop count
\* N > 0 with hop identifiers it is "path(N); " followed by the
\* identifiers in upper case, in order, joined by ">"; for N > 0 without
\* identifiers it is "path(N)".
C14_PathDescriptor ==
    path_str # <<>> =>
        LET text == path_str[1]
            hops == RMsg.path_hashes
            head == <<"p","a","t","h","(", Digits[RMsg.path_len + 1], ")">>
        IN  IF RMsg.path_len = 0 \/ hops = <<>>
            THEN text = head
            ELSE /\ Len(text) = Len(head) + 2 + 3 * Len(hops) - 1
                 /\ SubSeq(text, 1, Len(head) + 2) = head \o <<";", " ">>
                 /\ \A k \in 1..Len(hops) :
                       /\ text[Len(head) + 3 * k] = UpHex(hops[k][1])
                       /\ text[Len(head) + 3 * k + 1] = UpHex(hops[k][2])
                       /\ k > 1 => text[Len(head) + 3 * k - 1] = ">"

\* C14 witness: hop count 3 with the hops "8d","a8" gave "path(3); 8D>A8".
C14_Witness ==
    /\ path_str # <<>>
    /\ RMsg.path_len = 3
    /\ RMsg.path_hashes = << <<"8","d">>, <<"a","8">> >>
    /\ path_str[1] = <<"p","a","t","h","(","3",")",";"," ","8","D",">","A","8">>

\* the contacts whose public key starts with the hop identifier,
\* whatever the letter case
Matching(hop) ==
    {k \in 1..Len(RData.contacts) :
        /\ UpHex(RData.contacts[k].pubkey[1]) = UpHex(hop[1])
        /\ UpHex(RData.contacts[k].pubkey[2]) = UpHex(hop[2])}

\* C20: hops resolved from the hop identifiers of a message are one per
\* identifier, in the same order, each with its identifier as pubkey; an
\* identifier that matches no contact gives a placeholder hop (name '-',
\* location 0, 0) and one that matches gives the first matching contact's
\* name.
C20_OneHopPerIdentifier ==
    (route_result # <<>> /\ RResult.path_source = "rx_log") =>
        /\ Len(RResult.path_nodes) = Len(RMsg.path_hashes)
        /\ \A k \in 1..Len(RMsg.path_hashes) :
              LET hop == RResult.path_nodes[k]
                  hits == Matching(RMsg.path_hashes[k])
              IN  /\ hop.pubkey = RMsg.path_hashes[k]
                  /\ IF hits = {}
                     THEN hop.name = <<"-">> /\ hop.lat = 0 /\ hop.lon = 0
                     ELSE hop.name =
                            RData.contacts[CHOOSE i \in hits :
                                             \A j \in hits : i <= j].adv_name

\* C20 witness: of the hops "A8","ff","8d" the second matches no contact;
\* the route has three hops, the second a placeholder between "r3" and
\* "r1".
C20_Witness ==
    /\ route_result # <<>>
    /\ RMsg.path_hashes = << <<"A","8">>, <<"f","f">>, <<"8","d">> >>
    /\ Len(RResult.path_nodes) = 3
    /\ RResult.path_nodes[1].name = <<"r","3">>
    /\ RResult.path_nodes[2].name = <<"-">>
    /\ RResult.path_nodes[2].pubkey = <<"f","f">>
    /\ RResult.path_nodes[3].name = <<"r","1">>

\* the queries of _load_data in the order it sends them; "idle" when no
\* load is running
LoadStage(p) ==
    CASE p = "appstart" -> 0 [] p = "devquery" -> 1 [] p = "contacts" -> 2
      [] OTHER -> 3

\* how far a load has come: the queries behind it and the attempts of the
\* one it waits for
LoadRank(p, a) == LoadStage(p) * LOAD_ATTEMPTS + a

\* the payloads published so far of the query a load waits for at p
Published(l, p) == IF p = "appstart" THEN l.appstart ELSE l.devquery

\* a load is waiting for the device identity or the device version
Retried == ld_pc \in {"appstart", "devquery"}

\* C21: while loading, the device identity and the device version query are
\* each sent at most 5 times; a query is left at its first non-error
\* result with its payload published exactly once, or after the 5th error
\* with nothing published and no error status (a query that raises ends
\* the load); every answer takes the load strictly forward, so a load ends
\* within a bounded number of calls.
C21_BoundedLoad ==
    /\ [](Retried => attempt + 1 <= LOAD_ATTEMPTS)
    /\ [][ld_pc # "idle" /\ <<ld_pc, attempt, loaded>>' # <<ld_pc, attempt, loaded>>
            => /\ LoadRank(ld_pc', attempt') > LoadRank(ld_pc, attempt)
               /\ LoadRank(ld_pc', attempt') <= LoadRank("idle", 0)
               /\ (Retried /\ ld_pc' = ld_pc) =>
                     /\ loaded' = loaded
                     /\ attempt' = attempt + 1
               /\ (Retried /\ ld_pc' # ld_pc) =>
                     \/ /\ Published(loaded', ld_pc) = Published(loaded, ld_pc) + 1
                        /\ LoadStage(ld_pc') = LoadStage(ld_pc) + 1
                     \/ /\ loaded' = loaded
                        /\ attempt + 1 = LOAD_ATTEMPTS
                        /\ LoadStage(ld_pc') = LoadStage(ld_pc) + 1
                        /\ status' # "error"
                     \/ /\ loaded' = loaded
                        /\ ld_pc' = "idle"]_vars

\* C21 witness: while connecting, the device identity query failed 5 times
\* and nothing was published for it; the version query answered at once
\* and the load has moved on to the contacts without an error status.
C21_Witness ==
    /\ pc = "connect" /\ ld_pc = "contacts"
    /\ loaded.appstart = 0 /\ loaded.devquery = 1
    /\ status = "contacts"

\* _load_channel_keys is waiting for get_channel
LoadingKeys == conn_pc = "chankeys"

\* the channel _load_channel_keys is working on
KeyIdx == CHANNELS_CONFIG[ch_i]

\* _load_channel_keys has gone through every channel
KeysLoaded == conn_pc \in {"autofetch", "ready"}

\* C22: channel-key loading installs one key per configured channel and
\* never replaces it: get_channel is tried at most 3 times per channel, a
\* device key ends the attempts for its channel at once, the name-derived
\* key is installed only after the 3rd attempt failed; no answer, error
\* or raised exception makes key loading stop before the last channel, so
\* after it every configured channel has a key.
C22_OneKeyPerChannel ==
    /\ [](LoadingKeys =>
            /\ attempt + 1 <= KEY_ATTEMPTS
            /\ \A k \in 1..Len(CHANNELS_CONFIG) :
                  (chan_keys[CHANNELS_CONFIG[k]] = "none") <=> (k >= ch_i))
    /\ [](KeysLoaded =>
            \A k \in 1..Len(CHANNELS_CONFIG) :
                chan_keys[CHANNELS_CONFIG[k]] \in {"device", "derived"})
    /\ [][/\ \A i \in DOMAIN chan_keys :
                chan_keys[i] # "none" => chan_keys'[i] = chan_keys[i]
          /\ (LoadingKeys /\ <<chan_keys, attempt, ch_i, conn_pc>>' #
                                <<chan_keys, attempt, ch_i, conn_pc>>) =>
                /\ conn_pc' \in {"chankeys", "autofetch"}
                /\ \A i \in DOMAIN chan_keys :
                      i # KeyIdx => chan_keys'[i] = chan_keys[i]
                /\ chan_keys'[KeyIdx] = "derived" => attempt + 1 = KEY_ATTEMPTS
                /\ chan_keys'[KeyIdx] = "none" =>
                      /\ attempt' = attempt + 1
                      /\ ch_i' = ch_i /\ conn_pc' = conn_pc
                /\ chan_keys'[KeyIdx] # "none" =>
                      /\ attempt' = 0
                      /\ IF ch_i = Len(CHANNELS_CONFIG)
                         THEN conn_pc' = "autofetch"
                         ELSE ch_i' = ch_i + 1 /\ conn_pc' = conn_pc]_vars

\* C22 witness: key loading is over; the first channel got the derived key
\* after three failed attempts, the second its device key, and the other
\* two have keys as well.
C22_Witness ==
    /\ KeysLoaded
    /\ chan_keys[CHANNELS_CONFIG[1]] = "derived"
    /\ chan_keys[CHANNELS_CONFIG[2]] = "device"
    /\ chan_keys[CHANNELS_CONFIG[3]] = "derived"
    /\ chan_keys[CHANNELS_CONFIG[4]] = "device"

\* _async_main has returned, or an exception has left it
Terminated == pc \in {"done", "crashed"}

\* C23: once the run flag is false the loop is not re-entered: a command in
\* flight is still completed (its await is left for the drain, never for
\* the end of the routine, unless it raises), the loop head that finds the
\* flag false ends the routine, after which nothing is sent or published,
\* and with the flag false the routine does end.
C23_StopEndsLoop ==
    /\ [][(~running /\ pc = "head" /\ pc' # pc) => pc' = "done"]_vars
    /\ [][pc = "done" => (pc' = "done" /\ UNCHANGED <<sent, messages, cur>>)]_vars
    /\ [][(~running /\ pc = "await_cmd") =>
              pc' \in {"await_cmd", "drain", "crashed"}]_vars
    /\ [][(~running /\ pc \in {"drain", "sleep"}) => pc' # "done"]_vars
    /\ ((~running /\ pc = "await_cmd") ~> pc # "await_cmd")
    /\ (~running ~> Terminated)

\* C23 witness: the flag is false, the routine has returned, and a command
\* sent before it returned had its local echo published.
C23_Witness ==
    /\ ~running /\ pc = "done"
    /\ sent # <<>> /\ messages # <<>>

\* a step of _handle_command: a command is taken off the queue, or the
\* call it awaits returns
HandlerStep ==
    \/ pc = "drain" /\ Len(queue') < Len(queue)
    \/ pc = "await_cmd" /\ <<pc, ld_pc, attempt, loaded>>' # <<pc, ld_pc, attempt, loaded>>

\* the send of a chat message (not the bot's) or of a direct message
\* returns
EchoDue ==
    /\ pc = "await_cmd" /\ pc' = "drain"
    /\ cur # <<>> /\ cur[1].action \in {"send_message", "send_dm"}
    /\ ~cur[1].bot

\* C24: handling a command (send_message, send_dm, send_advert, refresh)
\* leaves the hash cache, the content cache and the bot's cooldown stamp as
\* they are; when the send of a chat or direct message from the GUI
\* returns, one record from 'Me' with direction out and the command's text
\* is published whatever the caches hold, and a handler publishes nothing
\* else.
C24_CommandsBypassDedup ==
    [][HandlerStep =>
          /\ UNCHANGED <<cacheVars, bot_last_reply>>
          /\ IF EchoDue
             THEN /\ Len(messages') = Len(messages) + 1
                  /\ SubSeq(messages', 1, Len(messages)) = messages
                  /\ messages'[Len(messages')].direction = "out"
                  /\ messages'[Len(messages')].sender = <<"M","e">>
                  /\ messages'[Len(messages')].text = cur[1].text
             ELSE messages' = messages]_vars

\* the records with direction out and the given text
EchoesOf(text) ==
    {k \in 1..Len(messages) :
        messages[k].direction = "out" /\ messages[k].text = text}

\* C24 witness: the same chat text was sent twice from the GUI and both
\* local echoes were published, while the caches hold the keys of a
\* received message and the bot has stamped a reply.
C24_Witness ==
    /\ Cardinality(EchoesOf(<<"h","i">>)) = 2
    /\ seen_hashes # {} /\ seen_content # {}
    /\ bot_last_reply > 0

\* transmissions i and j have the same channel, the same sender and the
\* same text
SameTriple(i, j) ==
    /\ Transmissions[i].channel_idx = Transmissions[j].channel_idx
    /\ Transmissions[i].sender = Transmissions[j].sender
    /\ Transmissions[i].text = Transmissions[j].text

\* C25: a channel message is suppressed only if a raw frame with the
\* identical channel, sender and text was decoded before it: a channel
\* message that was delivered and is not among the published messages has
\* such a raw frame among those delivered.  (Two different triples never
\* share a content key.)
C25_ContentKeyInjective ==
    \A i \in KeyTxIds :
        (ChanNote(i) \notin pending /\ InCount(i) = 0)
            => \E j \in KeyTxIds : RxNote(j) \notin pending /\ SameTriple(i, j)

\* C26: no message is lost to dedup: a notification is suppressed only when
\* a message of the same transmission was published before.  So the channel
\* message of a transmission none of whose notifications was handled yet
\* (its raw frame is still to come, or will not decode) is published, also
\* when an earlier transmission with the same channel, sender and text was
\* decoded from its raw frame.
C26_NoMessageLost ==
    [][\A i \in RepeatTxIds, h \in BOOLEAN :
          (DeliverChan(i, h) /\ RxNote(i) \in pending)
              => Len(messages') = Len(messages) + 1]_vars

\* the newest published message
LastMessage == messages[Len(messages)]

\* message m is what the fallback handler publishes for event ev
IsRecordOf(m, ev) ==
    /\ m.direction = "in"
    /\ m.channel = ev.channel_idx
    /\ m.message_hash = ev.message_hash
    /\ m.path_len = ev.path_len
    /\ m.path_hashes = <<>>
    /\ EndsWith(ev.text, m.text)

\* C27: the caches change only in a step that handles a raw frame (which
\* adds a raw-log record) and publishes its message: no channel message
\* and no direct message, published or dropped, changes either cache.  A
\* channel message delivered again right after it was published, with no
\* raw frame in between, is published again.
C27_FallbackNeverInserts ==
    /\ [][<<seen_hashes, seen_hashes_order, seen_content, seen_content_order>>' #
            <<seen_hashes, seen_hashes_order, seen_content, seen_content_order>>
              => /\ rx_log' = rx_log + 1
                 /\ Len(messages') = Len(messages) + 1
                 /\ messages'[Len(messages')].message_hash \in seen_hashes']_vars
    /\ [][\A ev \in RawChannelEvents :
            (DeliverRawChan(ev) /\ messages # <<>> /\ IsRecordOf(LastMessage, ev))
               => messages' = Append(messages, LastMessage)]_vars

\* C27 witness: the raw frame of "al"'s "ping" filled both caches; then the
\* channel message "al: a: b" was delivered twice and published twice.
C27_Witness ==
    /\ seen_hashes # {} /\ seen_content # {}
    /\ Len(messages) = 3
    /\ messages[2] = messages[3]
    /\ messages[3].message_hash = ""
    /\ messages[3].text = <<"a",":"," ","b">>

\* the bot replies handed to the device so far
SentReplies == {sent[k].text : k \in {j \in 1..Len(sent) : sent[j].bot}}

\* a step that publishes an incoming message whose text is a reply the bot
\* has sent: the echo of that reply
EchoPublished ==
    /\ Len(messages') = Len(messages) + 1
    /\ messages'[Len(messages')].direction = "in"
    /\ messages'[Len(messages')].text \in SentReplies

InQueue(id) == \E k \in 1..Len(queue) : queue[k].id = id

\* the command with this id is being handled
InFlight(id) == cur # <<>> /\ cur[1].id = id

RECURSIVE RawHashes(_)
RawHashes(ms) ==
    IF ms = <<>> THEN <<>>
    ELSE LET m == ms[Len(ms)]
             before == RawHashes(SubSeq(ms, 1, Len(ms) - 1))
         IN  IF m.path_hashes # <<>> THEN Append(before, m.message_hash)
             ELSE before

\* a sequence without the repetitions of its entries: each at its first
\* place
RECURSIVE FirstOccurrences(_)
FirstOccurrences(q) ==
    IF q = <<>> THEN <<>>
    ELSE LET before == FirstOccurrences(SubSeq(q, 1, Len(q) - 1))
             x == q[Len(q)]
         IN  IF \E k \in 1..Len(before) : before[k] = x THEN before
             ELSE Append(before, x)

\* the N most recently first-inserted distinct hashes
HashWindow ==
    LET firsts == LastN(FirstOccurrences(RawHashes(messages)), SEEN_HASHES_MAX)
    IN  {firsts[k] : k \in 1..Len(firsts)}

====
